---- MODULE Spec2Model ----
(***************************************************************************)
(* Model of the asset-generation and approval pipeline.                    *)
(*  - server routes (src/unnamed/part_002): the batch / script store, the  *)
(*    two generation handlers, the send-batch endpoint with its failsafes, *)
(*    the process-to-videos handler, the Slack interactions webhook and    *)
(*    the Meta routes upload-batch and create-campaign;                    *)
(*  - Meta market templates (src/unnamed/part_001);                        *)
(*  - FileService.uploadFileToMeta and uploadFileToMetaResumable, and     *)
(*    SubtitleService.generateSegments (src/unnamed/part_000);             *)
(*  - GoogleSheetsService.writeAssetEntries and recordScriptsToDatabase    *)
(*    (src/server/services/googleSheetsService.ts);                        *)
(*  - generateScriptFileName and the output file names of a run            *)
(*    (src/unnamed/part_002).                                              *)
(* The collaborators that are not part of these files (storage, LLM, TTS,  *)
(* video, Drive, Slack, the Sheets and Meta APIs) appear as the outcomes   *)
(* their calls can have: a value or an exception.                          *)
(***************************************************************************)
EXTENDS Naturals, Integers, Sequences, FiniteSets, TLC

\* ------------------------------------------------------------------ bounds
\* Largest scriptCount a generation request asks for, and the largest number
\* of suggestions the script generator returns.
MaxScripts == 2
\* Largest number of scripts of a process-to-videos request.
MaxVideoScripts == 3
\* Largest number of base films (or legacy background videos) of a request.
MaxBaseFilms == 2

\* Number of requests to the Slack interactions webhook.
MaxInteractions == 3

\* Largest number of assets of an upload-batch or create-campaign request.
MaxAssets == 5

\* Largest number of entries of a writeAssetEntries call.
MaxEntries == 2

\* Largest number of words of a subtitle text.
MaxWords == 11

\* Largest size of an uploaded file, in bytes, and the largest number of
\* transfer requests followed.
MaxFileBytes == 3
MaxTransfers == 3

\* Number of recordScriptsToDatabase calls on one spreadsheet and the largest
\* number of scripts of a call.
MaxDbCalls == 3
MaxDbScripts == 2

\* Largest number of data rows of the Asset_Database tab when it is read.
MaxSheetRows == 2

\* Largest numbers of scripts and of base films (or background videos) of a
\* run whose output file names are assigned.
MaxNameScripts == 2
MaxNameBases == 2

\* ------------------------------------------------------------ input domains
SeqsUpTo(S, n) == UNION {[1..k -> S] : k \in 0..n}

\* Titles are opaque: only their equality is read.  The generator's titles are
\* taken up to renaming (each new title is the next unused number).
Titles == 1..MaxScripts
Highest(titles, n) ==
  IF n = 0 THEN 0
  ELSE CHOOSE t \in {titles[i] : i \in 1..n} : \A i \in 1..n : titles[i] <= t
TitleLists ==
  {titles \in SeqsUpTo(Titles, MaxScripts) :
     \A i \in 1..Len(titles) : titles[i] <= Highest(titles, i - 1) + 1}
\* The content the generator produces; a stored content can later be changed
\* to any of AllContents ("" is the empty script).
GeneratedContent == "a"
AllContents == {"a", "b", ""}
\* What createVideosForScripts reports for one script: no video, or a video
\* file together with its Drive URL.
VideoOutcomes == {"none", "url"}

\* crypto.createHash('sha256').update(content).digest('hex'), by its leading
\* digits on the contents of the model.
Sha256(content) ==
  CASE content = ""  -> "e3b0c442"
    [] content = "a" -> "ca978112"
    [] content = "b" -> "3e23e816"

NoBatch == [exists |-> FALSE, scriptCount |-> 0, status |-> "none", folderLink |-> FALSE]

\* A request to the interactions webhook that has not arrived yet.
NoInteraction ==
  [pc |-> "idle", scriptOnly |-> FALSE, sheet |-> FALSE, responses |-> <<>>,
   mutations |-> <<>>, failed |-> FALSE]

NoResponse == [status |-> "none", successCount |-> 0]

\* A text is a sequence of tokens: a word, a word that ends with punctuation,
\* or a run of whitespace.  The texts are the word sequences with at most one
\* run of whitespace put in at any place.
WordTokens == {"a", "b,"}
InsertAt(s, p, t) == SubSeq(s, 1, p) \o <<t>> \o SubSeq(s, p + 1, Len(s))
Texts ==
  LET ws == SeqsUpTo(WordTokens, MaxWords)
  IN  ws \cup UNION {{InsertAt(w, p, " ") : p \in 0..Len(w)} : w \in ws}
\* Durations in tenths of a millisecond: durationMs = durationSeconds * 1000 is
\* not always a whole number.
DurationsTenthMs == {0, 7996, 10000, 50000, 123456}

VARIABLES
  \* Batch/Script store (appStorage)
  batch,          \* the ScriptBatch record of the modelled batchId
  rows,           \* its BatchScript rows, in scriptIndex order
  \* Slack
  dispatches,     \* calls of slackService.sendVideoBatchForApproval that returned
  \* generation handler (generate-scripts / generate-iterations)
  gpc, gSugg, gVideos, gI, gResp, gFail, gTimer,
  \* send-batch handler
  spc, sScripts, sVerified, sLogged, sResp,
  \* history
  createdContent, \* the contents handed to createBatchScripts
  \* process-to-videos handler
  vpc, vMode, vN, vM, vSlack, vIdx, vResp, vFail, vTimer,
  baseFilmErrors,   \* the base films of the baseFilmErrors entries, in order
  successfulBases,  \* the handler's counter
  vResults,         \* the base films that have entries in allScriptsWithVideos
                    \* (in no-script mode: in uploadedVideos)
  vDownloads,       \* the base films whose download returned a file
  synthCalls,       \* scripts synthesised by the TTS service so far
  compositeCalls,   \* (script, base film) pairs composited so far
  vRendered,        \* scripts of the request that already carry a finished video
  vFolders,         \* Drive folders created by the request (createTimestampedSubfolder)
  vUploadFolders,   \* the folders (by order of creation) the handler uploaded a video to
  vNotice,          \* sendBatchCreationNotification has been sent
  unhandled,        \* a promise rejection nothing catches has occurred
  \* Slack interactions webhook
  interactions,     \* per request: position, payload, responses sent, mutations started
  \* Meta routes (upload-batch, create-campaign)
  mpc, mKind,
  mAssets,          \* the assets of the request: TRUE when the asset carries its id
  mMarket,          \* normalizedMarket
  mNow,             \* new Date() of the request
  mIdx,             \* the asset the loop is at
  mResults,         \* uploadResults / adResults
  mResp,            \* the response: status and successCount
  mCampaigns,       \* calls of createCampaignFromTemplate that returned
  mCreated,         \* what was asked of the Meta API: kind, status, startTime, endTime
  \* FileService.uploadFileToMeta
  upc,
  uSize,            \* fileSizeMB
  uTimeout,         \* timeoutMs
  uAttempt,         \* attempt of the for loop
  uErrors,          \* what each single-request upload ended with
  uSingle,          \* single-request uploads issued (axios.post)
  uResumable,       \* calls of uploadFileToMetaResumable
  uResult,          \* what the call returned or threw
  \* GoogleSheetsService.writeAssetEntries
  lpc,
  lEntries,         \* the entries of the call
  lAttempts,        \* attempts of the poll loop
  lReads,           \* reads of the File_Name cells
  lWaits,           \* timers awaited
  lFileNames,       \* fileNames of the last read
  lResults,         \* the results returned
  lThrew,           \* the call rethrew an error
  lSheet,           \* columns E, H, L of the data rows, as the call read them
  lWritten,         \* sheet rows the batchUpdate wrote
  \* SubtitleService.generateSegments
  tpc,
  tText,            \* the text of the call
  tDuration,        \* durationMs of the call, in tenths of a millisecond
  tChunks,          \* what splitIntoWordChunks returned
  tSegments,        \* the segments returned
  \* FileService.uploadFileToMetaResumable
  rpc,
  rSize,            \* fileSizeBytes
  rStartOffset,
  rEndOffset,
  rVideoId,         \* the start response carried a video_id
  rCovered,         \* byte offsets of the file sent by transfer requests
  rLog,             \* upload_phase of the requests issued, in order
  rResult,          \* what the call returned or threw
  \* GoogleSheetsService.recordScriptsToDatabase
  dSheet,           \* data rows of the Script_Database tab
  dpc,              \* position of each call
  dRows,            \* rows each call built
  dBatchId,         \* batch number each call was given
  dNextRow,         \* nextRow of each call's appendDataToTab
  \* output file names of a process-to-videos run
  npc,
  nMode,            \* base films, or one of the legacy paths
  nScriptIds,       \* scriptId of each script
  nBaseIds,         \* baseId (or background video) of each base film
  nLedger,          \* what the ledger gave
  nNames            \* fileName of script s for base film b

storeVars == <<batch, rows>>
genVars == <<gpc, gSugg, gVideos, gI, gResp, gFail, gTimer>>
sendVars == <<spc, sScripts, sVerified, sLogged, sResp>>
videoVars == <<vpc, vMode, vN, vM, vSlack, vIdx, vResp, vFail, vTimer, baseFilmErrors,
               successfulBases, vResults, vDownloads, synthCalls, compositeCalls,
               vRendered, vFolders, vUploadFolders, vNotice, unhandled>>
metaVars == <<mpc, mKind, mAssets, mMarket, mNow, mIdx, mResults, mResp, mCampaigns,
              mCreated>>
uploadVars == <<upc, uSize, uTimeout, uAttempt, uErrors, uSingle, uResumable, uResult>>
ledgerVars == <<lpc, lEntries, lAttempts, lReads, lWaits, lFileNames, lResults, lThrew,
                lSheet, lWritten>>
subtitleVars == <<tpc, tText, tDuration, tChunks, tSegments>>
resumableVars == <<rpc, rSize, rStartOffset, rEndOffset, rVideoId, rCovered, rLog, rResult>>
databaseVars == <<dSheet, dpc, dRows, dBatchId, dNextRow>>
nameVars == <<npc, nMode, nScriptIds, nBaseIds, nLedger, nNames>>
lateVars == <<subtitleVars, resumableVars, databaseVars, nameVars>>
auxVars == <<interactions, metaVars, uploadVars, ledgerVars, lateVars>>
vars == <<storeVars, dispatches, genVars, sendVars, createdContent, videoVars, auxVars>>

\* Math.min and Math.max of two numbers.
MinOf(a, b) == IF a <= b THEN a ELSE b
MaxOf(a, b) == IF a >= b THEN a ELSE b

\* ------------------------------------------------------------- the store
\* createScriptBatch({..., scriptCount, status: 'generating'})
CreateScriptBatch(count) ==
  [exists |-> TRUE, scriptCount |-> count, status |-> "generating", folderLink |-> FALSE]

\* One row of createBatchScripts, as the generation handlers build it.
BatchScriptRow(suggestion, index) ==
  [scriptIndex |-> index,
   title       |-> suggestion.title,
   content     |-> suggestion.content,
   contentHash |-> Sha256(suggestion.content),
   audioFile   |-> suggestion.audioFile,
   videoFile   |-> FALSE,
   videoUrl    |-> FALSE]

BatchScriptRows(suggestions) ==
  [i \in 1..Len(suggestions) |-> BatchScriptRow(suggestions[i], i - 1)]

\* updateScriptBatchStatus(batchId, status): an unconditional write.
UpdateScriptBatchStatus(b, status) == [b EXCEPT !.status = status]

\* updateBatchScript(id, {videoFile, videoUrl, videoFileId}) from one video result.
UpdateBatchScriptVideo(row, video) ==
  [row EXCEPT !.videoFile = (video = "url"),
              !.videoUrl  = (video = "url")]

\* The order generating < videos_generated < slack_sent of the batch status.
StatusRank(status) ==
  CASE status = "none"             -> 0
    [] status = "generating"       -> 1
    [] status = "videos_generated" -> 2
    [] status = "slack_sent"       -> 3
    [] OTHER                       -> 4

\* ----------------------------------------------------- generation handlers
\* POST /api/ai/generate-scripts: the batch record is created with the
\* requested scriptCount before anything is generated.
GenerateScripts ==
  /\ gpc = "idle"
  /\ \E count \in 1..MaxScripts : batch' = CreateScriptBatch(count)
  /\ gpc' = "generate"
  /\ UNCHANGED <<rows, dispatches, gSugg, gVideos, gI, gResp, gFail, gTimer,
                 sendVars, createdContent,
                 videoVars, auxVars>>

\* POST /api/ai/generate-iterations: scriptCount is
\* sourceScripts.length * iterationsPerScript.  From here on the handler is
\* the same code as generate-scripts, line for line.
GenerateIterations ==
  /\ gpc = "idle"
  /\ \E sources \in 1..MaxScripts, perScript \in 1..MaxScripts :
       /\ sources * perScript <= MaxScripts
       /\ batch' = CreateScriptBatch(sources * perScript)
  /\ gpc' = "generate"
  /\ UNCHANGED <<rows, dispatches, gSugg, gVideos, gI, gResp, gFail, gTimer,
                 sendVars, createdContent,
                 videoVars, auxVars>>

\* The catch block of both handlers: a 500 response and nothing else.
GenCatch(stage) ==
  /\ gResp' = "500"
  /\ gFail' = stage
  /\ gpc' = "done"

\* The suggestions the generator can return: any number of them up to
\* MaxScripts, whatever scriptCount was asked for; audio is there for all of
\* them (generateAudio set and the voiceovers made) or for none.
Suggestions(audio) ==
  {[i \in 1..Len(titles) |->
      [title |-> titles[i], content |-> GeneratedContent, audioFile |-> audio]] :
     titles \in TitleLists}

\* generateScriptSuggestions / generateIterations, then createBatchScripts of
\* whatever the generator returned, then the decision to create videos.
GenCreateBatchScripts ==
  /\ gpc = "generate"
  /\ \/ /\ \E stage \in {"generate", "persist"} : GenCatch(stage)
        /\ UNCHANGED <<rows, gSugg, createdContent>>
     \/ \E audio \in BOOLEAN : \E suggestions \in Suggestions(audio) :
          /\ rows' = BatchScriptRows(suggestions)
          /\ createdContent' = [i \in 1..Len(suggestions) |-> suggestions[i].content]
          /\ gSugg' = [i \in 1..Len(suggestions) |->
                         [title |-> suggestions[i].title,
                          content |-> suggestions[i].content,
                          videoUrl |-> FALSE]]
          /\ gpc' = IF \E i \in 1..Len(suggestions) : suggestions[i].audioFile
                    THEN "videos" ELSE "save"
          /\ UNCHANGED <<gResp, gFail>>
  /\ UNCHANGED <<batch, dispatches, gVideos, gI, gTimer, sendVars,
                 videoVars, auxVars>>

\* The base film is resolved (Drive download or local path) and
\* videoService.createVideosForScripts is called inside its try block.
GenCreateVideos ==
  /\ gpc = "videos"
  /\ \/ \* no usable base film, or createVideosForScripts threw
        /\ gpc' = "save"
        /\ UNCHANGED <<gVideos, gI>>
     \/ \E videos \in [1..Len(gSugg) -> VideoOutcomes] :
          /\ gVideos' = videos
          /\ gI' = 1
          /\ gpc' = "update"
  /\ UNCHANGED <<storeVars, dispatches, gSugg, gResp, gFail, gTimer, sendVars,
                 createdContent,
                 videoVars, auxVars>>

\* After the update loop: the video fields are merged into the suggestions.
MergeVideos(suggestions, videos) ==
  [i \in 1..Len(suggestions) |-> [suggestions[i] EXCEPT !.videoUrl = (videos[i] = "url")]]

\* One iteration of the loop over videosResult: updateBatchScript for a
\* result that carries a video.  After the last one the results are merged
\* and videosResult.find(v => v.folderLink) decides whether the batch status
\* is written.
GenUpdateBatchScript ==
  /\ gpc = "update"
  /\ IF gI <= Len(gVideos)
     THEN /\ rows' = IF gVideos[gI] # "none"
                     THEN [rows EXCEPT ![gI] = UpdateBatchScriptVideo(rows[gI], gVideos[gI])]
                     ELSE rows
          /\ gI' = gI + 1
          /\ UNCHANGED <<gSugg, gVideos, gpc>>
     ELSE /\ gSugg' = MergeVideos(gSugg, gVideos)
          /\ gVideos' = <<>>
          /\ gI' = 0
          /\ \E folderLink \in BOOLEAN : gpc' = IF folderLink THEN "status" ELSE "save"
          /\ UNCHANGED rows
  /\ UNCHANGED <<batch, dispatches, gResp, gFail, gTimer, sendVars, createdContent,
                 videoVars, auxVars>>

\* updateScriptBatchStatus(batchId, 'videos_generated')
GenUpdateStatus ==
  /\ gpc = "status"
  /\ batch' = UpdateScriptBatchStatus(batch, "videos_generated")
  /\ gpc' = "folder"
  /\ UNCHANGED <<rows, dispatches, gSugg, gVideos, gI, gResp, gFail, gTimer, sendVars,
                 createdContent,
                 videoVars, auxVars>>

\* updateScriptBatch(batchId, { folderLink })
GenUpdateFolderLink ==
  /\ gpc = "folder"
  /\ batch' = [batch EXCEPT !.folderLink = TRUE]
  /\ gpc' = "save"
  /\ UNCHANGED <<rows, dispatches, gSugg, gVideos, gI, gResp, gFail, gTimer, sendVars,
                 createdContent,
                 videoVars, auxVars>>

\* batchData of the delayed approval: built from result.suggestions.
TimerBatchData(suggestions) ==
  [i \in 1..Len(suggestions) |-> suggestions[i].content]

\* saveSuggestionsToSheet, the Slack notice, the 5-minute timer and the response.
\* slackEnabled stands for the request's flag and the environment switch.  The
\* script-only approval (sendScriptBatchForApproval) of generate-scripts sends
\* no video batch and touches no modelled state.
GenSaveAndNotify ==
  /\ gpc = "save"
  /\ \/ /\ GenCatch("save")
        /\ UNCHANGED gTimer
     \/ /\ \E slackEnabled \in BOOLEAN :
             gTimer' = IF slackEnabled /\ \E i \in 1..Len(gSugg) : gSugg[i].videoUrl
                       THEN "pending" ELSE gTimer
        /\ gResp' = "200"
        /\ gpc' = "done"
        /\ UNCHANGED gFail
  /\ UNCHANGED <<storeVars, dispatches, gSugg, gVideos, gI, sendVars, createdContent,
                 videoVars, auxVars>>

\* The setTimeout callback: sendVideoBatchForApproval(batchData) in a try
\* block.  No fingerprint is recomputed on this path.
GenTimerFire ==
  /\ gTimer = "pending"
  /\ gTimer' = "fired"
  /\ \/ dispatches' = dispatches \cup
          {[path |-> "generation-timer",
            contents |-> TimerBatchData(gSugg),
            verified |-> {}]}
     \/ UNCHANGED dispatches   \* the send threw; the callback logs it
  /\ UNCHANGED <<storeVars, gpc, gSugg, gVideos, gI, gResp, gFail, sendVars,
                 createdContent,
                 videoVars, auxVars>>

\* ------------------------------------------------------- send-batch endpoint
\* validateBatchIntegrity without its comparison of scriptCount with the
\* number of scripts.
ValidateBatchIntegrityNoCount(b, scripts) ==
  IF ~b.exists THEN {"Batch not found"}
  ELSE
    {"Script has no content" : i \in {j \in 1..Len(scripts) : scripts[j].content = ""}}
    \cup {"Script order mismatch" :
            i \in {j \in 1..Len(scripts) : scripts[j].scriptIndex # j - 1}}
    \cup {"Script has video but no audio file" :
            i \in {j \in 1..Len(scripts) : scripts[j].videoUrl /\ ~scripts[j].audioFile}}

\* validateBatchIntegrity(batchId), on the batch and the scripts it reads.
ValidateBatchIntegrity(b, scripts) ==
  IF ~b.exists THEN {"Batch not found"}
  ELSE
    (IF b.scriptCount # Len(scripts) THEN {"Script count mismatch"} ELSE {})
    \cup {"Script has no content" : i \in {j \in 1..Len(scripts) : scripts[j].content = ""}}
    \cup {"Script order mismatch" :
            i \in {j \in 1..Len(scripts) : scripts[j].scriptIndex # j - 1}}
    \cup {"Script has video but no audio file" :
            i \in {j \in 1..Len(scripts) : scripts[j].videoUrl /\ ~scripts[j].audioFile}}

\* The hash loop leaving after its first script.
HashMismatchesFirstOnly(scripts) ==
  {i \in 1..Len(scripts) :
     i = 1 /\ scripts[i].contentHash # "" /\ Sha256(scripts[i].content) # scripts[i].contentHash}

\* The scripts whose stored contentHash differs from the hash of their content
\* (scripts without a contentHash are skipped by the loop).
HashMismatches(scripts) ==
  {i \in 1..Len(scripts) :
     scripts[i].contentHash # "" /\ Sha256(scripts[i].content) # scripts[i].contentHash}

\* The scripts the loop has recomputed the hash of when it ends without a mismatch.
HashVerified(scripts) ==
  {i \in 1..Len(scripts) : scripts[i].contentHash # ""}

\* titles.has(script.title) for some script of the loop
DuplicateTitles(scripts) ==
  \E i, j \in 1..Len(scripts) : i < j /\ scripts[i].title = scripts[j].title

\* scripts.filter(s => !s.videoUrl && !s.videoFile)
ScriptsWithoutVideos(scripts) ==
  {i \in 1..Len(scripts) : ~scripts[i].videoUrl /\ ~scripts[i].videoFile}

\* The catch block of send-batch.
SBCatch ==
  /\ sResp' = "500"
  /\ spc' = "done"

\* A request arrives: the DISABLE_SLACK_NOTIFICATIONS switch, then
\* getScriptBatchByBatchId.
SBReadBatch ==
  /\ spc \in {"idle", "done"}
  /\ sScripts' = <<>>
  /\ sVerified' = {}
  /\ sLogged' = FALSE
  /\ \/ /\ sResp' = "200-disabled"
        /\ spc' = "done"
     \/ SBCatch
     \/ IF batch.exists
        THEN spc' = "scripts" /\ sResp' = "none"
        ELSE spc' = "done" /\ sResp' = "404"
  /\ UNCHANGED <<storeVars, dispatches, genVars, createdContent,
                 videoVars, auxVars>>

\* getBatchScriptsByBatchId; batchData is built from these scripts.
SBReadScripts ==
  /\ spc = "scripts"
  /\ \/ SBCatch /\ UNCHANGED sScripts
     \/ /\ sScripts' = rows
        /\ IF Len(rows) = 0
           THEN spc' = "done" /\ sResp' = "400-empty"
           ELSE spc' = "validate" /\ UNCHANGED sResp
  /\ UNCHANGED <<storeVars, dispatches, genVars, sVerified, sLogged,
                 createdContent,
                 videoVars, auxVars>>

\* The failsafes, in the order of the handler: validateBatchIntegrity (which
\* reads the store again), the content hashes, the titles, the videos.
SBFailsafes ==
  /\ spc = "validate"
  /\ \/ SBCatch /\ UNCHANGED sVerified
     \/ IF ValidateBatchIntegrity(batch, rows) # {}
        THEN spc' = "done" /\ sResp' = "400-invalid" /\ UNCHANGED sVerified
        ELSE IF HashMismatches(sScripts) # {}
        THEN spc' = "log" /\ UNCHANGED <<sResp, sVerified>>
        ELSE /\ sVerified' = HashVerified(sScripts)
             /\ IF DuplicateTitles(sScripts)
                THEN spc' = "done" /\ sResp' = "400-duplicate"
                ELSE IF ScriptsWithoutVideos(sScripts) # {}
                THEN spc' = "done" /\ sResp' = "400-novideo"
                ELSE spc' = "send" /\ UNCHANGED sResp
  /\ UNCHANGED <<storeVars, dispatches, genVars, sScripts, sLogged,
                 createdContent,
                 videoVars, auxVars>>

\* createActivityLog({type: 'security_alert', ...}), then the 403.  sLogged
\* records that this request wrote its entry to the activity log.
SBLogViolation ==
  /\ spc = "log"
  /\ \/ SBCatch /\ UNCHANGED sLogged
     \/ /\ sLogged' = TRUE
        /\ sResp' = "403"
        /\ spc' = "done"
  /\ UNCHANGED <<storeVars, dispatches, genVars, sScripts, sVerified,
                 createdContent,
                 videoVars, auxVars>>

\* slackService.sendVideoBatchForApproval(batchData)
SBSend ==
  /\ spc = "send"
  /\ \/ SBCatch /\ UNCHANGED dispatches
     \/ /\ dispatches' = dispatches \cup
             {[path |-> "send-batch",
               contents |-> [i \in 1..Len(sScripts) |-> sScripts[i].content],
               verified |-> sVerified]}
        /\ spc' = "update"
        /\ UNCHANGED sResp
  /\ UNCHANGED <<storeVars, genVars, sScripts, sVerified, sLogged,
                 createdContent,
                 videoVars, auxVars>>

\* updateScriptBatchStatus(batchId, 'slack_sent'), then the success response.
SBUpdateStatus ==
  /\ spc = "update"
  /\ \/ SBCatch /\ UNCHANGED batch
     \/ /\ batch' = UpdateScriptBatchStatus(batch, "slack_sent")
        /\ sResp' = "200"
        /\ spc' = "done"
  /\ UNCHANGED <<rows, dispatches, genVars, sScripts, sVerified, sLogged,
                 createdContent,
                 videoVars, auxVars>>

\* ------------------------------------------------------------- environment
\* The content of a stored script is changed behind the handlers' back.
TamperContent ==
  /\ \E i \in 1..Len(rows), c \in AllContents :
       /\ c # rows[i].content
       /\ rows' = [rows EXCEPT ![i].content = c]
  /\ UNCHANGED <<batch, dispatches, genVars, sendVars, createdContent,
                 videoVars, auxVars>>

\* ------------------------------------------------ process-to-videos handler
batchVars == <<storeVars, genVars, sendVars, createdContent>>

\* What the TTS service does with the scripts of one generateScriptVoiceovers
\* call: one synthesis per script.
SynthesisOperations(scripts) == scripts

\* What the video service does with the scripts of one createVideosForScripts
\* call: one compositing per script, on the base film of the call.
CompositingOperations(scripts) == scripts

\* The catch block of process-to-videos.
VCatch(stage) ==
  /\ vResp' = "500"
  /\ vFail' = stage
  /\ vpc' = "done"

\* The request: noScriptMode or not, the scripts (some of which may already
\* carry a finished video reference), and the list the base films come from
\* (baseVideos / baseVideo, else backgroundVideosDrive, else backgroundVideos,
\* else none), with sendToSlack and slackNotificationDelay ("off" also stands
\* for a Slack service that is not configured).
\* The Asset_Database writes are wrapped in try blocks and change nothing here.
VStart ==
  /\ vpc = "idle"
  /\ \E mode \in {"noscript", "bases", "drive", "local", "audio"},
        n \in 0..MaxVideoScripts, m \in 0..MaxBaseFilms,
        slack \in {"off", "now", "delayed"} :
       /\ mode = "audio" => m = 0
       /\ mode \in {"bases", "drive", "local"} => m > 0
       /\ mode = "noscript" => n = 0
       /\ vMode' = mode
       /\ vN' = n
       /\ vM' = m
       /\ vSlack' = slack
       /\ vRendered' \in 0..n
       /\ IF mode # "noscript" /\ n = 0
          THEN vResp' = "400-scripts" /\ vpc' = "done"
          ELSE vResp' = vResp /\ vpc' = IF mode = "noscript" THEN "nsfolder" ELSE "synth"
  /\ UNCHANGED <<batchVars, auxVars, dispatches, vIdx, vFail, vTimer, baseFilmErrors,
                 successfulBases, vResults, vDownloads, synthCalls, compositeCalls,
                 vFolders, vUploadFolders, vNotice, unhandled>>

\* The shared batch folder of the baseVideos list: createTimestampedSubfolder
\* in a try block, when Drive is configured.
SharedFolder ==
  IF vMode = "bases"
  THEN vFolders' \in {vFolders, vFolders + 1}
  ELSE vFolders' = vFolders

\* Synthesis moved into the base film loop: once per script and base film.
VSynthPerBaseFilm ==
  /\ vpc = "synth"
  /\ \/ /\ VCatch("synth")
        /\ UNCHANGED <<vIdx, synthCalls, vFolders>>
     \/ /\ synthCalls' = synthCalls + SynthesisOperations(vN) * (IF vM > 0 THEN vM ELSE 1)
        /\ SharedFolder
        /\ vIdx' = 1
        /\ vpc' = IF vMode = "audio" THEN "finish" ELSE "loop"
        /\ UNCHANGED <<vResp, vFail>>
  /\ UNCHANGED <<batchVars, auxVars, dispatches, vMode, vN, vM, vSlack, vRendered, vTimer,
                 baseFilmErrors, successfulBases, vResults, vDownloads, compositeCalls,
                 vUploadFolders, vNotice, unhandled>>

\* Normal mode: elevenLabsService.generateScriptVoiceovers(formattedScripts),
\* once, on all the scripts of the request and before any base film; then the
\* shared batch folder.
VSynth ==
  /\ vpc = "synth"
  /\ \/ /\ VCatch("synth")
        /\ UNCHANGED <<vIdx, synthCalls, vFolders>>
     \/ /\ synthCalls' = synthCalls + SynthesisOperations(vN)
        /\ SharedFolder
        /\ vIdx' = 1
        /\ vpc' = IF vMode = "audio" THEN "finish" ELSE "loop"
        /\ UNCHANGED <<vResp, vFail>>
  /\ UNCHANGED <<batchVars, auxVars, dispatches, vMode, vN, vM, vSlack, vRendered, vTimer,
                 baseFilmErrors, successfulBases, vResults, vDownloads, compositeCalls,
                 vUploadFolders, vNotice, unhandled>>

\* The outcomes of one base film of baseVideosList that end in a
\* baseFilmErrors entry before createVideosForScripts is reached.
BaseFilmRejections ==
  {"file-not-found", "not-a-video", "download-failed", "folder-empty", "folder-many",
   "invalid-link"}

\* After the base film loop: 400 when no base film succeeded.
AfterBaseFilms(successes) ==
  IF successes = 0
  THEN vResp' = "400-all-failed" /\ vpc' = "done"
  ELSE vResp' = vResp /\ vpc' = "finish"

\* One iteration of the loop over baseVideosList: getFileInfo / listBaseFilms,
\* downloadBaseFilmToTemp, then createVideosForScripts in its try block.
VBaseFilm ==
  /\ vpc = "loop"
  /\ vMode = "bases"
  /\ \/ \* getFileInfo, listBaseFilms or downloadBaseFilmToTemp throws
        /\ VCatch("base-film")
        /\ UNCHANGED <<vIdx, baseFilmErrors, successfulBases, vResults, vDownloads,
                       compositeCalls>>
     \/ /\ \E rejection \in BaseFilmRejections :
             baseFilmErrors' = Append(baseFilmErrors, vIdx)
        /\ vIdx' = vIdx + 1
        /\ IF vIdx = vM THEN AfterBaseFilms(successfulBases)
                        ELSE UNCHANGED <<vResp, vpc>>
        /\ UNCHANGED <<vFail, successfulBases, vResults, vDownloads, compositeCalls>>
     \/ \* createVideosForScripts throws
        /\ vDownloads' = vDownloads \cup {vIdx}
        /\ compositeCalls' = compositeCalls + CompositingOperations(vN)
        /\ baseFilmErrors' = Append(baseFilmErrors, vIdx)
        /\ vIdx' = vIdx + 1
        /\ IF vIdx = vM THEN AfterBaseFilms(successfulBases)
                        ELSE UNCHANGED <<vResp, vpc>>
        /\ UNCHANGED <<vFail, successfulBases, vResults>>
     \/ /\ vDownloads' = vDownloads \cup {vIdx}
        /\ compositeCalls' = compositeCalls + CompositingOperations(vN)
        /\ vResults' = vResults \cup {vIdx}
        /\ successfulBases' = successfulBases + 1
        /\ vIdx' = vIdx + 1
        /\ IF vIdx = vM THEN AfterBaseFilms(successfulBases + 1)
                        ELSE UNCHANGED <<vResp, vpc>>
        /\ UNCHANGED <<vFail, baseFilmErrors>>
  /\ UNCHANGED <<batchVars, auxVars, dispatches, vMode, vN, vM, vSlack, vRendered, vTimer,
                 synthCalls, vFolders, vUploadFolders, vNotice, unhandled>>

\* One iteration of the legacy loops: over backgroundVideosDrive (a download
\* that may fail, then createVideosForScripts) or over backgroundVideos
\* (local paths).  Neither loop has a try block or an error list.
VLegacyVideo ==
  /\ vpc = "loop"
  /\ vMode \in {"drive", "local"}
  /\ \/ \* downloadBaseFilmToTemp or createVideosForScripts throws
        /\ VCatch("legacy-video")
        /\ UNCHANGED <<vIdx, vResults, vDownloads, compositeCalls>>
     \/ \* no driveId or name, or the download did not succeed: skipped
        /\ vMode = "drive"
        /\ vIdx' = vIdx + 1
        /\ vpc' = IF vIdx = vM THEN "finish" ELSE vpc
        /\ UNCHANGED <<vResp, vFail, vResults, vDownloads, compositeCalls>>
     \/ /\ vDownloads' = vDownloads \cup {vIdx}
        /\ compositeCalls' = compositeCalls + CompositingOperations(vN)
        /\ vResults' = vResults \cup {vIdx}
        /\ vIdx' = vIdx + 1
        /\ vpc' = IF vIdx = vM THEN "finish" ELSE vpc
        /\ UNCHANGED <<vResp, vFail>>
  /\ UNCHANGED <<batchVars, auxVars, dispatches, vMode, vN, vM, vSlack, vRendered, vTimer,
                 baseFilmErrors, successfulBases, synthCalls, vFolders, vUploadFolders,
                 vNotice, unhandled>>

\* No-script mode: createTimestampedSubfolder for the batch folder when Drive
\* is configured, outside any try block.
VNoScriptFolder ==
  /\ vpc = "nsfolder"
  /\ \/ /\ VCatch("folder")
        /\ UNCHANGED <<vIdx, vFolders>>
     \/ /\ vFolders' \in {vFolders, vFolders + 1}
        /\ vIdx' = 1
        /\ vpc' = IF vM = 0 THEN "finish" ELSE "loop"
        /\ UNCHANGED <<vResp, vFail>>
  /\ UNCHANGED <<batchVars, auxVars, dispatches, vMode, vN, vM, vSlack, vRendered, vTimer,
                 baseFilmErrors, successfulBases, vResults, vDownloads, synthCalls,
                 compositeCalls, vUploadFolders, vNotice, unhandled>>

\* No-script mode, one base film: no file id, a failed download and an
\* exception all skip the film (continue, or the catch of the loop body);
\* otherwise it is uploaded to the batch folder, when there is one, and
\* pushed to uploadedVideos.
VNoScriptBaseFilm ==
  /\ vpc = "loop"
  /\ vMode = "noscript"
  /\ \/ UNCHANGED <<vResults, vDownloads, vUploadFolders>>
     \/ /\ vDownloads' = vDownloads \cup {vIdx}
        /\ vResults' = vResults \cup {vIdx}
        /\ vUploadFolders' = IF vFolders > 0 THEN vUploadFolders \cup {vFolders}
                                             ELSE vUploadFolders
  /\ vIdx' = vIdx + 1
  /\ vpc' = IF vIdx = vM THEN "finish" ELSE vpc
  /\ UNCHANGED <<batchVars, auxVars, dispatches, vMode, vN, vM, vSlack, vRendered, vResp, vFail,
                 vTimer, baseFilmErrors, successfulBases, synthCalls, compositeCalls,
                 vFolders, vNotice, unhandled>>

\* The items of the batch handed to sendVideoBatchForApproval.
ApprovalItems ==
  CASE vMode = "noscript" -> Cardinality(vResults)
    [] vMode = "audio"    -> vN
    [] OTHER              -> vN * Cardinality(vResults)

ApprovalDispatch ==
  [path |-> "process-to-videos",
   contents |-> [i \in 1..ApprovalItems |-> GeneratedContent],
   verified |-> {}]

\* The end of the request.  No-script mode: the Slack timer when videos were
\* uploaded (setTimeout whatever the delay is), then success: true.  The other
\* modes, with sendToSlack: a Drive folder of its own and the uploads of the
\* video files into it, then the approval now or the notice and the timer;
\* then success: true.
VFinish ==
  /\ vpc = "finish"
  /\ \/ /\ vMode = "noscript"
        /\ vTimer' = IF vSlack # "off" /\ vResults # {} THEN "pending" ELSE vTimer
        /\ vResp' = "200"
        /\ vpc' = "done"
        /\ UNCHANGED <<vFail, dispatches, vFolders, vUploadFolders, vNotice>>
     \/ \* createTimestampedSubfolder throws
        /\ vMode # "noscript"
        /\ vSlack # "off"
        /\ VCatch("slack")
        /\ UNCHANGED <<vTimer, dispatches, vFolders, vUploadFolders, vNotice>>
     \/ \* sendBatchCreationNotification or sendVideoBatchForApproval throws
        /\ vMode # "noscript"
        /\ vSlack # "off"
        /\ vFolders' = vFolders + 1
        /\ vUploadFolders' \in
             {vUploadFolders} \cup
             (IF vResults # {} THEN {vUploadFolders \cup {vFolders + 1}} ELSE {})
        /\ VCatch("slack")
        /\ UNCHANGED <<vTimer, dispatches, vNotice>>
     \/ /\ vMode # "noscript"
        /\ vSlack # "off"
        /\ vFolders' = vFolders + 1
        /\ vUploadFolders' \in
             {vUploadFolders} \cup
             (IF vResults # {} THEN {vUploadFolders \cup {vFolders + 1}} ELSE {})
        /\ vNotice' = (vSlack = "delayed")
        /\ vTimer' = IF vSlack = "delayed" THEN "pending" ELSE vTimer
        /\ dispatches' = IF vSlack = "now" THEN dispatches \cup {ApprovalDispatch}
                                           ELSE dispatches
        /\ vResp' = "200"
        /\ vpc' = "done"
        /\ UNCHANGED vFail
     \/ /\ vMode # "noscript"
        /\ vSlack = "off"
        /\ vResp' = "200"
        /\ vpc' = "done"
        /\ UNCHANGED <<vFail, vTimer, dispatches, vFolders, vUploadFolders, vNotice>>
  /\ UNCHANGED <<batchVars, auxVars, vMode, vN, vM, vSlack, vRendered, vIdx, baseFilmErrors,
                 successfulBases, vResults, vDownloads, synthCalls, compositeCalls,
                 unhandled>>

\* The setTimeout callback of process-to-videos.  In no-script mode the send
\* is inside a try block; in the other modes the callback has none, and a
\* rejected send is an unhandled rejection.
VTimerFire ==
  /\ vTimer = "pending"
  /\ vTimer' = "fired"
  /\ \/ /\ dispatches' = dispatches \cup {ApprovalDispatch}
        /\ UNCHANGED unhandled
     \/ /\ UNCHANGED dispatches   \* the send threw
        /\ unhandled' = IF vMode = "noscript" THEN unhandled ELSE TRUE
  /\ UNCHANGED <<batchVars, auxVars, vpc, vMode, vN, vM, vSlack, vRendered, vIdx, vResp, vFail,
                 baseFilmErrors, successfulBases, vResults, vDownloads, synthCalls,
                 compositeCalls, vFolders, vUploadFolders, vNotice>>

\* ------------------------------------------------ Slack interactions webhook
notInteractions == <<batchVars, dispatches, videoVars, metaVars, uploadVars, ledgerVars, lateVars>>

\* What a request body can be: one that does not parse (or has no payload),
\* a payload of another type, a block_actions payload whose action, message
\* or value is missing (the destructuring throws), and a well-formed
\* block_actions payload.
InteractionPayloads == {"unparsable", "other-type", "block_actions-broken", "block_actions"}

\* The handler waits for the decision to be processed before it answers.
SlackInteractionAwaitsWork(r) ==
  /\ interactions[r].pc = "idle"
  /\ \E scriptOnly \in BOOLEAN, sheet \in BOOLEAN :
       interactions' = [interactions EXCEPT
         ![r].pc = "record",
         ![r].scriptOnly = scriptOnly,
         ![r].sheet = sheet,
         ![r].mutations = <<"message">>,
         ![r].responses = <<"200-ack">>]
  /\ UNCHANGED notInteractions

\* POST /api/slack/interactions up to its return: the payload is parsed; a
\* block_actions payload is answered with res.json and its processing is
\* handed to setImmediate; another type is answered 200; an exception is
\* answered 500 by the catch block.
SlackInteraction(r) ==
  /\ interactions[r].pc = "idle"
  /\ \E payload \in InteractionPayloads, scriptOnly \in BOOLEAN, sheet \in BOOLEAN :
       interactions' =
         CASE payload \in {"unparsable", "block_actions-broken"} ->
                [interactions EXCEPT ![r].pc = "done", ![r].responses = <<"500">>]
           [] payload = "other-type" ->
                [interactions EXCEPT ![r].pc = "done", ![r].responses = <<"200-ignored">>]
           [] payload = "block_actions" ->
                [interactions EXCEPT
                   ![r].pc = "message",
                   ![r].scriptOnly = scriptOnly,
                   ![r].sheet = scriptOnly /\ sheet,
                   ![r].responses = <<"200-ack">>]
  /\ UNCHANGED notInteractions

\* The setImmediate callback, first await: updateMessageWithDecision.  A
\* throw goes to the catch of the callback, which only logs.
InteractionUpdateMessage(r) ==
  /\ interactions[r].pc = "message"
  /\ \/ interactions' = [interactions EXCEPT
          ![r].mutations = Append(@, "message"),
          ![r].pc = "record"]
     \/ interactions' = [interactions EXCEPT
          ![r].mutations = Append(@, "message"),
          ![r].failed = TRUE,
          ![r].pc = "done"]
  /\ UNCHANGED notInteractions

\* recordScriptDecision (script-only approvals) or recordDecision.
InteractionRecordDecision(r) ==
  /\ interactions[r].pc = "record"
  /\ \/ interactions' = [interactions EXCEPT
          ![r].mutations = Append(@, "decision"),
          ![r].pc = IF interactions[r].scriptOnly THEN "sheet" ELSE "done"]
     \/ interactions' = [interactions EXCEPT
          ![r].mutations = Append(@, "decision"),
          ![r].failed = TRUE,
          ![r].pc = "done"]
  /\ UNCHANGED notInteractions

\* updateScriptStatus in its own try block, when the action value carries a
\* spreadsheet id.
InteractionUpdateSheet(r) ==
  /\ interactions[r].pc = "sheet"
  /\ IF interactions[r].sheet
     THEN \E threw \in BOOLEAN :
            interactions' = [interactions EXCEPT
              ![r].mutations = Append(@, "sheet"),
              ![r].failed = threw,
              ![r].pc = "done"]
     ELSE interactions' = [interactions EXCEPT ![r].pc = "done"]
  /\ UNCHANGED notInteractions

\* ------------------------------------------------------------- Meta routes
notMeta == <<batchVars, dispatches, videoVars, interactions, uploadVars, ledgerVars, lateVars>>

META_MARKETS == {<<"U", "K">>, <<"I", "N">>, <<"D", "E">>, <<"U", "S">>}

\* META_MARKET_TEMPLATES: the template ids a market has.
META_MARKET_TEMPLATES(market) ==
  IF market = <<"U", "K">> THEN {"campaignId", "adSetId", "adId"} ELSE {}

\* String.prototype.trim and toUpperCase on the characters of the model.
RECURSIVE TrimStart(_)
TrimStart(str) ==
  IF str # <<>> /\ Head(str) = " " THEN TrimStart(Tail(str)) ELSE str

RECURSIVE TrimEnd(_)
TrimEnd(str) ==
  IF str # <<>> /\ str[Len(str)] = " " THEN TrimEnd(SubSeq(str, 1, Len(str) - 1)) ELSE str

Trim(str) == TrimEnd(TrimStart(str))

UpperChar(c) ==
  CASE c = "u" -> "U" [] c = "k" -> "K" [] c = "d" -> "D" [] c = "e" -> "E"
    [] OTHER -> c

ToUpperCase(str) == [i \in 1..Len(str) |-> UpperChar(str[i])]

\* normalizeMetaMarket: null (here <<>>) for no input, and for an input that is
\* not a market after trim and toUpperCase.
NormalizeMetaMarket(input) ==
  IF input = <<>> THEN <<>>
  ELSE IF ToUpperCase(Trim(input)) \in META_MARKETS THEN ToUpperCase(Trim(input))
  ELSE <<>>

GetMetaTemplateIds(market) == META_MARKET_TEMPLATES(market)

\* The metaMarket values of the requests (<<>>: absent or empty).
MarketInputs ==
  {<<>>, <<"U", "K">>, <<" ", "u", "k", " ">>, <<"d", "e">>, <<"I", "N">>, <<"F", "R">>,
   <<" ">>}

\* The asset lists of the requests (<<>>: absent, not an array, or empty).
AssetLists == SeqsUpTo(BOOLEAN, MaxAssets)

\* 7 * 24 * 60 * 60 * 1000
RunWindowMs == 7 * 24 * 60 * 60 * 1000

\* The catch block of upload-batch and of create-campaign.
MetaCatch ==
  /\ mResp' = [status |-> "500", successCount |-> 0]
  /\ mpc' = "done"

\* filter(r => r.success).length
SuccessCount(results) ==
  Cardinality({i \in 1..Len(results) : results[i].success = "true"})

\* The response after the loop.
MetaRespond(results) ==
  [status |-> "200", successCount |-> SuccessCount(results)]

\* POST /api/meta/upload-batch up to its loop: getAccessToken, the assets
\* check, the Drive configuration check.
UploadBatchStart ==
  /\ mpc = "idle"
  /\ mKind' = "upload-batch"
  /\ \E assets \in AssetLists :
       /\ mAssets' = assets
       /\ \/ MetaCatch /\ UNCHANGED mIdx                       \* getAccessToken throws
          \/ /\ assets = <<>>
             /\ mResp' = [status |-> "400", successCount |-> 0]
             /\ mpc' = "done"
             /\ UNCHANGED mIdx
          \/ /\ assets # <<>>
             /\ \/ /\ mResp' = [status |-> "503", successCount |-> 0]
                   /\ mpc' = "done"
                   /\ UNCHANGED mIdx
                \/ /\ mpc' = "loop"
                   /\ mIdx' = 1
                   /\ UNCHANGED mResp
  /\ UNCHANGED <<notMeta, mMarket, mNow, mResults, mCampaigns, mCreated>>

\* One asset of upload-batch: uploadDriveFileToMeta in its try block; the
\* response after the last asset.
UploadBatchAsset ==
  /\ mpc = "loop"
  /\ mKind = "upload-batch"
  /\ \E ok \in BOOLEAN :
       LET results == Append(mResults,
                        [asset |-> mIdx, success |-> IF ok THEN "true" ELSE "false"])
       IN /\ mResults' = results
          /\ mIdx' = mIdx + 1
          /\ IF mIdx = Len(mAssets)
             THEN mResp' = MetaRespond(results) /\ mpc' = "done"
             ELSE UNCHANGED <<mResp, mpc>>
  /\ UNCHANGED <<notMeta, mKind, mAssets, mMarket, mNow, mCampaigns, mCreated>>

\* Template ids are not checked before the campaign is created.
CreateCampaignStartUnchecked ==
  /\ mpc = "idle"
  /\ mKind' = "create-campaign"
  /\ \E assets \in AssetLists, input \in MarketInputs, now \in {0, 1} :
       LET market == IF NormalizeMetaMarket(input) = <<>> THEN <<"U", "K">>
                     ELSE NormalizeMetaMarket(input)
       IN /\ mAssets' = assets
          /\ IF assets = <<>>
             THEN /\ mResp' = [status |-> "400", successCount |-> 0]
                  /\ mpc' = "done"
                  /\ UNCHANGED <<mMarket, mNow>>
             ELSE /\ mMarket' = market
                  /\ mNow' = now
                  /\ mpc' = "campaign"
                  /\ UNCHANGED mResp
  /\ UNCHANGED <<notMeta, mIdx, mResults, mCampaigns, mCreated>>

\* POST /api/meta/create-campaign up to createCampaignFromTemplate:
\* getAccessToken, the uploadedAssets check, the market and its template ids.
CreateCampaignStart ==
  /\ mpc = "idle"
  /\ mKind' = "create-campaign"
  /\ \E assets \in AssetLists, input \in MarketInputs, now \in {0, 1} :
       LET market == IF NormalizeMetaMarket(input) = <<>> THEN <<"U", "K">>
                     ELSE NormalizeMetaMarket(input)
       IN /\ mAssets' = assets
          /\ \/ MetaCatch /\ UNCHANGED <<mMarket, mNow>>       \* getAccessToken throws
             \/ /\ assets = <<>>
                /\ mResp' = [status |-> "400", successCount |-> 0]
                /\ mpc' = "done"
                /\ UNCHANGED <<mMarket, mNow>>
             \/ /\ assets # <<>>
                /\ mMarket' = market
                /\ IF {"campaignId", "adSetId", "adId"} \subseteq GetMetaTemplateIds(market)
                   THEN mNow' = now /\ mpc' = "campaign" /\ UNCHANGED mResp
                   ELSE /\ mResp' = [status |-> "400", successCount |-> 0]
                        /\ mpc' = "done"
                        /\ UNCHANGED mNow
  /\ UNCHANGED <<notMeta, mIdx, mResults, mCampaigns, mCreated>>

\* createCampaignFromTemplate, then getAdSetTemplate and
\* getAdCreativeTemplateFromAd.
CreateCampaign ==
  /\ mpc = "campaign"
  /\ \/ MetaCatch /\ UNCHANGED <<mCampaigns, mCreated, mIdx>>   \* the creation throws
     \/ /\ mCampaigns' = mCampaigns + 1
        /\ mCreated' = mCreated \cup
             {[kind |-> "campaign", status |-> "PAUSED", startTime |-> mNow,
               endTime |-> mNow + RunWindowMs]}
        /\ \/ MetaCatch /\ UNCHANGED mIdx                       \* a template read throws
           \/ mpc' = "loop" /\ mIdx' = 1 /\ UNCHANGED mResp
  /\ UNCHANGED <<notMeta, mKind, mAssets, mMarket, mNow, mResults>>

\* The objects asked of the Meta API for one asset.
AdSetRequest ==
  [kind |-> "adset", status |-> "PAUSED", startTime |-> mNow, endTime |-> mNow + RunWindowMs]
CreativeRequest ==
  [kind |-> "creative", status |-> "none", startTime |-> 0, endTime |-> 0]
AdRequest ==
  [kind |-> "ad", status |-> "PAUSED", startTime |-> 0, endTime |-> 0]

\* The per-asset loop stops at the first asset that fails.
CreateCampaignAssetAbortsOnFailure ==
  /\ mpc = "loop"
  /\ mKind = "create-campaign"
  /\ IF mAssets[mIdx]
     THEN /\ mResults' = Append(mResults, [asset |-> mIdx, success |-> "true"])
          /\ mCreated' = mCreated \cup {AdSetRequest, CreativeRequest, AdRequest}
          /\ mIdx' = mIdx + 1
          /\ IF mIdx = Len(mAssets)
             THEN mResp' = MetaRespond(mResults') /\ mpc' = "done"
             ELSE UNCHANGED <<mResp, mpc>>
     ELSE /\ mResults' = Append(mResults, [asset |-> mIdx, success |-> "undefined"])
          /\ mResp' = MetaRespond(mResults')
          /\ mpc' = "done"
          /\ UNCHANGED <<mCreated, mIdx>>
  /\ UNCHANGED <<notMeta, mKind, mAssets, mMarket, mNow, mCampaigns>>

\* One asset of create-campaign: no metaVideoId, or the ad set, the creative
\* and the ad in one try block; after the last asset the report (in a try
\* block) and the response.
CreateCampaignAsset ==
  /\ mpc = "loop"
  /\ mKind = "create-campaign"
  /\ \E outcome \in {"adset-throws", "creative-throws", "ad-throws", "created"} :
       LET entry ==
             IF ~mAssets[mIdx] THEN [asset |-> mIdx, success |-> "undefined"]
             ELSE IF outcome = "created" THEN [asset |-> mIdx, success |-> "true"]
             ELSE [asset |-> mIdx, success |-> "false"]
           requests ==
             IF ~mAssets[mIdx] THEN {}
             ELSE CASE outcome = "adset-throws"    -> {AdSetRequest}
                    [] outcome = "creative-throws" -> {AdSetRequest, CreativeRequest}
                    [] OTHER -> {AdSetRequest, CreativeRequest, AdRequest}
           results == Append(mResults, entry)
       IN /\ mResults' = results
          /\ mCreated' = mCreated \cup requests
          /\ mIdx' = mIdx + 1
          /\ IF mIdx = Len(mAssets)
             THEN mResp' = MetaRespond(results) /\ mpc' = "done"
             ELSE UNCHANGED <<mResp, mpc>>
  /\ UNCHANGED <<notMeta, mKind, mAssets, mMarket, mNow, mCampaigns>>

\* ------------------------------------------------ FileService.uploadFileToMeta
notUpload == <<batchVars, dispatches, videoVars, interactions, metaVars, ledgerVars, lateVars>>

\* const maxRetries = 3
maxRetries == 3

\* File sizes in MB.
FileSizesMB == {0, 1, 10, 11, 25}

\* Math.max(60000, 60000 + Math.ceil(fileSizeMB / 10) * 30000)
TimeoutMs(fileSizeMB) ==
  LET scaled == 60000 + ((fileSizeMB + 9) \div 10) * 30000
  IN IF scaled > 60000 THEN scaled ELSE 60000

\* What one axios.post of the single-request upload ends with: a video id, a
\* response without id, the platform's transient timeout (code 390, subcode
\* 1363030), another platform error, the client-side timeout, a connection
\* reset.
UploadOutcomes ==
  {"id", "no-id", "meta-390-1363030", "meta-error", "ECONNABORTED", "ECONNRESET"}

\* uploadFileToMeta up to the for loop: the file check, the ad account, the
\* timeout, META_UPLOAD_RESUMABLE.
UploadFileToMeta ==
  /\ upc = "idle"
  /\ \E size \in FileSizesMB :
       /\ uSize' = size
       /\ \/ /\ uResult' \in {"no-file", "no-ad-account"}
             /\ upc' = "done"
             /\ UNCHANGED <<uTimeout, uAttempt>>
          \/ /\ uTimeout' = TimeoutMs(size)
             /\ \/ upc' = "resumable" /\ UNCHANGED uAttempt    \* forceResumable
                \/ upc' = "attempt" /\ uAttempt' = 1
             /\ UNCHANGED uResult
  /\ UNCHANGED <<notUpload, uErrors, uSingle, uResumable>>

\* One iteration of the for loop: the single-request upload and the catch
\* block.
UploadAttempt ==
  /\ upc = "attempt"
  /\ uSingle' = uSingle + 1
  /\ \E outcome \in UploadOutcomes :
       /\ uErrors' = Append(uErrors, outcome)
       /\ CASE outcome = "id" ->
                 uResult' = "id" /\ upc' = "done" /\ UNCHANGED uAttempt
            [] outcome = "meta-390-1363030" ->
                 upc' = "resumable" /\ UNCHANGED <<uResult, uAttempt>>
            [] outcome = "ECONNABORTED" ->
                 uResult' = "upload-timeout" /\ upc' = "done" /\ UNCHANGED uAttempt
            [] outcome = "ECONNRESET" ->
                 uResult' = "connection-lost" /\ upc' = "done" /\ UNCHANGED uAttempt
            [] OTHER ->
                 IF uAttempt = maxRetries
                 THEN uResult' = "error" /\ upc' = "done" /\ UNCHANGED uAttempt
                 ELSE uAttempt' = uAttempt + 1 /\ UNCHANGED <<uResult, upc>>
  /\ UNCHANGED <<notUpload, uSize, uTimeout, uResumable>>

\* uploadFileToMetaResumable: a video id, or its error rethrown.
UploadResumable ==
  /\ upc = "resumable"
  /\ uResumable' = uResumable + 1
  /\ uResult' \in {"id", "resumable-error"}
  /\ upc' = "done"
  /\ UNCHANGED <<notUpload, uSize, uTimeout, uAttempt, uErrors, uSingle>>

\* ------------------------------------------ GoogleSheetsService.writeAssetEntries
notLedger == <<batchVars, dispatches, videoVars, interactions, metaVars, uploadVars, lateVars>>

\* const maxAttempts = 3
maxAttempts == 3

\* The entries of a call: (scriptId, baseId) pairs.
EntryLists ==
  {entries \in SeqsUpTo([scriptId : {"s1", "s2"}, baseId : {"b1"}], MaxEntries) :
     entries # <<>>}

\* What a File_Name cell of written row i can hold when it is read: nothing
\* yet, blanks, or the name the ledger's formula gives the row.
EmptyCell == <<>>
LedgerFileName(i) == <<"f", ToString(i)>>
Cells(i) == {EmptyCell, <<" ">>, LedgerFileName(i)}

\* What a read of A<startRow>:A<endRow> can return: the rows up to the last
\* one that holds something.
Reads(n) ==
  UNION {{cells \in [1..k -> UNION {Cells(i) : i \in 1..n}] :
            \A i \in 1..k : cells[i] \in Cells(i)} : k \in 0..n}

\* fileNames.length === entries.length &&
\* fileNames.every(row => row[0] && row[0].toString().trim() !== '')
AllPopulated(fileNames, entries) ==
  /\ Len(fileNames) = Len(entries)
  /\ \A i \in 1..Len(fileNames) : fileNames[i] # EmptyCell /\ Trim(fileNames[i]) # <<>>

\* `asset_${scriptId}_${baseId}`
FallbackFileName(entry) == <<"asset", entry.scriptId, entry.baseId>>

\* The results loop: fileNames[i]?.[0] || the fallback.
BuildResults(fileNames, entries) ==
  [i \in 1..Len(entries) |->
     [fileName |-> IF i <= Len(fileNames) /\ fileNames[i] # EmptyCell
                   THEN fileNames[i] ELSE FallbackFileName(entries[i]),
      baseId |-> entries[i].baseId,
      scriptId |-> entries[i].scriptId]]

\* Columns E, H and L of a data row of the Asset_Database tab: all empty,
\* blanks in E only, or a Subtitled value only.
LedgerRows ==
  {[e |-> EmptyCell, h |-> EmptyCell, l |-> EmptyCell],
   [e |-> <<" ">>,   h |-> EmptyCell, l |-> EmptyCell],
   [e |-> EmptyCell, h |-> EmptyCell, l |-> <<"x">>]}
LedgerSheets == SeqsUpTo(LedgerRows, MaxSheetRows)

\* The values of one column as batchGet returns them: the header, then the
\* data rows up to the last cell that holds something.  Index 0 of the code
\* is the header; index d is data row d, which is sheet row d + 1.
ColumnLength(column) ==
  LET filled == {d \in 1..Len(column) : column[d] # EmptyCell}
  IN  1 + (IF filled = {} THEN 0 ELSE CHOOSE d \in filled : \A x \in filled : x <= d)

\* col[row]?.[0]?.toString().trim() || ''
CellValue(column, row) ==
  IF row < ColumnLength(column) THEN Trim(column[row]) ELSE <<>>

\* The search for startRow: the first row from index 1 on whose E, H and L are
\* all empty, as a 1-indexed sheet row; maxRows + 1 when there is none.
FindStartRow(sheet, n) ==
  LET colE == [d \in 1..Len(sheet) |-> sheet[d].e]
      colH == [d \in 1..Len(sheet) |-> sheet[d].h]
      colL == [d \in 1..Len(sheet) |-> sheet[d].l]
      maxRows == MaxOf(MaxOf(ColumnLength(colE), ColumnLength(colH)),
                       MaxOf(ColumnLength(colL), 1))
      empty == {row \in 1..(maxRows + n) :
                  /\ CellValue(colE, row) = <<>>
                  /\ CellValue(colH, row) = <<>>
                  /\ CellValue(colL, row) = <<>>}
  IN  IF empty = {} THEN maxRows + 1
      ELSE (CHOOSE row \in empty : \A x \in empty : row <= x) + 1

\* rowNum = startRow + i for each entry
WrittenRows(startRow, n) == {startRow + i : i \in 0..(n - 1)}

\* writeAssetEntries up to the poll: batchGet, the search for startRow,
\* batchUpdate of the rows startRow.., the 2 s wait.
WriteAssetEntries ==
  /\ lpc = "idle"
  /\ \E entries \in EntryLists, sheet \in LedgerSheets :
       /\ lEntries' = entries
       /\ \/ /\ lThrew' = TRUE              \* a Sheets call throws
             /\ lpc' = "done"
             /\ UNCHANGED <<lWaits, lSheet, lWritten>>
          \/ /\ lSheet' = sheet
             /\ lWritten' = WrittenRows(FindStartRow(sheet, Len(entries)), Len(entries))
             /\ lWaits' = lWaits + 1
             /\ lpc' = "poll"
             /\ UNCHANGED lThrew
  /\ UNCHANGED <<notLedger, lAttempts, lReads, lFileNames, lResults>>

\* The poll loop reads once more than maxAttempts.
PollFileNamesOnceMore ==
  /\ lpc = "poll"
  /\ lAttempts <= maxAttempts
  /\ lReads' = lReads + 1
  /\ \E fileNames \in Reads(Len(lEntries)) :
       /\ lFileNames' = fileNames
       /\ IF AllPopulated(fileNames, lEntries) \/ lAttempts = maxAttempts
          THEN /\ lResults' = BuildResults(fileNames, lEntries)
               /\ lpc' = "done"
               /\ UNCHANGED <<lAttempts, lWaits>>
          ELSE /\ lAttempts' = lAttempts + 1
               /\ lWaits' = lWaits + 1
               /\ UNCHANGED <<lpc, lResults>>
  /\ UNCHANGED <<notLedger, lEntries, lThrew, lSheet, lWritten>>

\* One iteration of the poll loop: the read, the check, the 1 s wait before
\* another attempt; after the loop, the results.
PollFileNames ==
  /\ lpc = "poll"
  /\ lAttempts < maxAttempts
  /\ \/ /\ lReads' = lReads + 1
        /\ lThrew' = TRUE                                     \* the read throws
        /\ lpc' = "done"
        /\ UNCHANGED <<lAttempts, lWaits, lFileNames, lResults>>
     \/ /\ lReads' = lReads + 1
        /\ \E fileNames \in Reads(Len(lEntries)) :
             /\ lFileNames' = fileNames
             /\ IF AllPopulated(fileNames, lEntries) \/ lAttempts + 1 = maxAttempts
                THEN /\ lResults' = BuildResults(fileNames, lEntries)
                     /\ lpc' = "done"
                     /\ lAttempts' = IF AllPopulated(fileNames, lEntries)
                                     THEN lAttempts ELSE lAttempts + 1
                     /\ UNCHANGED lWaits
                ELSE /\ lAttempts' = lAttempts + 1
                     /\ lWaits' = lWaits + 1
                     /\ UNCHANGED <<lpc, lResults>>
        /\ UNCHANGED lThrew
  /\ UNCHANGED <<notLedger, lEntries, lSheet, lWritten>>

\* ---------------------------------------------------------- SubtitleService
notSubtitles == <<batchVars, dispatches, videoVars, interactions, metaVars, uploadVars,
                  ledgerVars, resumableVars, databaseVars, nameVars>>

\* const minDuration = 800;
minDuration == 800

\* wordsPerChunk: the target chunk size generateSegments passes.
wordsPerChunk == 5

\* Math.round replaced by Math.floor.
RoundDown(num, den) == num \div den

\* Math.round of the non-negative rational num/den: the integer nearest to it,
\* a half rounded up.
Round(num, den) == (2 * num + den) \div (2 * den)

\* A natural break: the word ends with one of , ; : - (em dash) . ! ?
IsNaturalBreak(word) == word = "b,"

\* The split without the filter: the whitespace stays among the words.
SplitWordsUnfiltered(text) == text

\* text.split(/\s+/).filter(w => w.length > 0): the words of the text, the
\* whitespace between them dropped.
SplitWords(text) == SelectSeq(text, LAMBDA t : t # " ")

\* The loop of splitIntoWordChunks from word i on, currentChunk holding the
\* words not yet pushed and chunks the chunks pushed so far; after the loop
\* the remaining words are pushed.
RECURSIVE ChunkLoop(_, _, _, _, _)
ChunkLoop(words, i, currentChunk, chunks, perChunk) ==
  IF i > Len(words)
  THEN IF Len(currentChunk) > 0 THEN Append(chunks, currentChunk) ELSE chunks
  ELSE LET cur == Append(currentChunk, words[i])
           atChunkLimit == Len(cur) >= perChunk
           atMaxLimit == Len(cur) >= perChunk + 1
           isLastWord == i = Len(words)
       IN  IF atMaxLimit \/ (atChunkLimit /\ IsNaturalBreak(words[i])) \/ isLastWord
           THEN ChunkLoop(words, i + 1, <<>>, Append(chunks, cur), perChunk)
           ELSE IF atChunkLimit
                THEN IF i + 1 <= Len(words) /\ IsNaturalBreak(words[i + 1])
                     THEN ChunkLoop(words, i + 1, cur, chunks, perChunk)
                     ELSE ChunkLoop(words, i + 1, <<>>, Append(chunks, cur), perChunk)
                ELSE ChunkLoop(words, i + 1, cur, chunks, perChunk)

\* A target size one too large.
SplitIntoWordChunksOneMore(text, perChunk) ==
  ChunkLoop(SplitWords(text), 1, <<>>, <<>>, perChunk + 1)

\* splitIntoWordChunks: a chunk is the sequence of its words (the code joins
\* them with one space).
SplitIntoWordChunks(text, perChunk) ==
  ChunkLoop(SplitWords(text), 1, <<>>, <<>>, perChunk)

RECURSIVE TotalWords(_)
TotalWords(chunks) ==
  IF chunks = <<>> THEN 0 ELSE Len(Head(chunks)) + TotalWords(Tail(chunks))

\* The loop without the Math.min that clips an end at the duration.
RECURSIVE SegmentLoopUnclipped(_, _, _, _, _, _)
SegmentLoopUnclipped(chunks, k, currentTime, segments, total, d10) ==
  IF k > Len(chunks) THEN segments
  ELSE LET chunkWords == Len(chunks[k])
           den == 10 * total
           adjusted == MaxOf(d10 * chunkWords, minDuration * den)
           start == Round(currentTime, 1)
           end == Round(currentTime * den + adjusted, den)
       IN  SegmentLoopUnclipped(chunks, k + 1, end,
                       Append(segments, [start |-> start, end |-> end, text |-> chunks[k]]),
                       total, d10)

\* The loop of generateSegments from chunk k on.  A duration is a number of
\* tenths of a millisecond (durationMs = d10 / 10); currentTime is a whole
\* number of milliseconds, the end of the previous segment.
\*   currentTime + adjustedDuration
\*     = (10 * total * currentTime + max(d10 * chunkWords, 10 * total * 800))
\*       / (10 * total)
RECURSIVE SegmentLoop(_, _, _, _, _, _)
SegmentLoop(chunks, k, currentTime, segments, total, d10) ==
  IF k > Len(chunks) THEN segments
  ELSE LET chunkWords == Len(chunks[k])
           den == 10 * total
           adjusted == MaxOf(d10 * chunkWords, minDuration * den)
           start == Round(currentTime, 1)
           end == Round(MinOf(currentTime * den + adjusted, d10 * total), den)
       IN  SegmentLoop(chunks, k + 1, end,
                       Append(segments, [start |-> start, end |-> end, text |-> chunks[k]]),
                       total, d10)

\* The segments of the chunks: the loop, then the end of the last segment set
\* to Math.round(durationMs).
SegmentsOf(chunks, d10) ==
  IF Len(chunks) = 0 THEN <<>>
  ELSE LET segments == SegmentLoop(chunks, 1, 0, <<>>, TotalWords(chunks), d10)
       IN  [segments EXCEPT ![Len(segments)].end = Round(d10, 10)]

\* generateSegments(text, durationMs)
GenerateSegments ==
  /\ tpc = "idle"
  /\ \E text \in Texts, d10 \in DurationsTenthMs :
       LET chunks == SplitIntoWordChunks(text, wordsPerChunk)
       IN  /\ tText' = text
           /\ tDuration' = d10
           /\ tChunks' = chunks
           /\ tSegments' = SegmentsOf(chunks, d10)
  /\ tpc' = "done"
  /\ UNCHANGED notSubtitles

\* ------------------------------------------ FileService.uploadFileToMetaResumable
notResumable == <<batchVars, dispatches, videoVars, interactions, metaVars, uploadVars,
                  ledgerVars, subtitleVars, databaseVars, nameVars>>

\* An offset field of a server response: a byte offset, a value Number() turns
\* into NaN, or no field at all.
NotANumber == 0 - 2
Omitted == 0 - 1
ServerOffsets == (0..MaxFileBytes) \cup {Omitted, NotANumber}

\* Number(startData?.start_offset ?? 0)
NumberOrZero(v) == IF v = Omitted THEN 0 ELSE v

\* Number(transferData?.start_offset): Number(undefined) is NaN
NumberOf(v) == IF v = Omitted THEN NotANumber ELSE v

\* The bytes fs.createReadStream(filePath, {start, end}) reads of a file of
\* size bytes: start..end inclusive, up to the end of the file.
ChunkBytes(start, end, size) == {b \in start..end : b < size}

\* A phase that throws (the request, or the check of its response) ends the call.
ResumableThrow ==
  /\ rResult' = "error"
  /\ rpc' = "done"

\* The start phase: the request, then the session id and the offsets of its
\* response.
ResumableStart ==
  /\ rpc = "idle"
  /\ \E size \in 1..MaxFileBytes : rSize' = size
  /\ rLog' = <<"start">>
  /\ \/ /\ ResumableThrow          \* axios.post rejected
        /\ UNCHANGED <<rStartOffset, rEndOffset, rVideoId>>
     \/ \E session \in BOOLEAN, videoId \in BOOLEAN, so \in ServerOffsets, eo \in ServerOffsets :
          LET startOffset == NumberOrZero(so)
              endOffset == NumberOrZero(eo)
          IN  IF ~session \/ startOffset = NotANumber \/ endOffset = NotANumber
              THEN /\ ResumableThrow
                   /\ UNCHANGED <<rStartOffset, rEndOffset, rVideoId>>
              ELSE /\ rStartOffset' = startOffset
                   /\ rEndOffset' = endOffset
                   /\ rVideoId' = videoId
                   /\ rpc' = "transfer"
                   /\ UNCHANGED rResult
  /\ UNCHANGED <<notResumable, rCovered>>

\* One iteration of the transfer loop: the chunk startOffset..chunkEnd is
\* sent and the offsets of the response replace the current ones.
ResumableTransfer ==
  /\ rpc = "transfer"
  /\ rStartOffset < rEndOffset
  /\ Len(rLog) <= MaxTransfers
  /\ LET chunkEnd == MaxOf(rStartOffset, rEndOffset - 1)
     IN  rCovered' = rCovered \cup ChunkBytes(rStartOffset, chunkEnd, rSize)
  /\ rLog' = Append(rLog, "transfer")
  /\ \/ /\ ResumableThrow          \* axios.post rejected
        /\ UNCHANGED <<rStartOffset, rEndOffset>>
     \/ \E so \in ServerOffsets, eo \in ServerOffsets :
          LET nextStartOffset == NumberOf(so)
              nextEndOffset == NumberOf(eo)
          IN  IF nextStartOffset = NotANumber \/ nextEndOffset = NotANumber
              THEN /\ ResumableThrow
                   /\ UNCHANGED <<rStartOffset, rEndOffset>>
              ELSE /\ rStartOffset' = nextStartOffset
                   /\ rEndOffset' = nextEndOffset
                   /\ UNCHANGED <<rpc, rResult>>
  /\ UNCHANGED <<notResumable, rSize, rVideoId>>

\* The finish phase, once startOffset < endOffset no longer holds: the request,
\* then success and video_id of its response.
ResumableFinish ==
  /\ rpc = "transfer"
  /\ ~(rStartOffset < rEndOffset)
  /\ rLog' = Append(rLog, "finish")
  /\ \/ rResult' = "error"         \* axios.post rejected
     \/ \E success \in BOOLEAN, videoId \in BOOLEAN :
          rResult' = IF ~success THEN "error"
                     ELSE IF videoId \/ rVideoId THEN "id"
                     ELSE "error"
  /\ rpc' = "done"
  /\ UNCHANGED <<notResumable, rSize, rStartOffset, rEndOffset, rVideoId, rCovered>>

\* ------------------------------------- GoogleSheetsService.recordScriptsToDatabase
notDatabase == <<batchVars, dispatches, videoVars, interactions, metaVars, uploadVars,
                 ledgerVars, subtitleVars, resumableVars, nameVars>>

DbCalls == 1..MaxDbCalls

RECURSIVE MaxNum(_, _)
MaxNum(nums, i) ==
  IF i = 0 THEN 0 ELSE MaxOf(nums[i], MaxNum(nums, i - 1))

\* getLatestScriptDatabaseIds: the largest batch number and the largest script
\* number of the data rows (0 and 0 for a tab without data rows).  An id is
\* written as sb / s followed by its number padded to 5 digits and read back
\* with parseInt, so a row is kept as its two numbers.
GetLatestScriptDatabaseIds(sheet) ==
  [lastBatchNum  |-> MaxNum([i \in 1..Len(sheet) |-> sheet[i].batch], Len(sheet)),
   lastScriptNum |-> MaxNum([i \in 1..Len(sheet) |-> sheet[i].script], Len(sheet))]

\* The rows recordScriptsToDatabase builds for count scripts.
NewRows(latest, count) ==
  [i \in 1..count |-> [batch |-> latest.lastBatchNum + 1, script |-> latest.lastScriptNum + i]]

\* values.update of the range that starts at data row nextRow: the rows of the
\* range are replaced, the others stay.
UpdateRange(sheet, nextRow, data) ==
  [i \in 1..MaxOf(Len(sheet), nextRow + Len(data) - 1) |->
     IF i >= nextRow /\ i < nextRow + Len(data) THEN data[i - nextRow + 1] ELSE sheet[i]]

\* A call starts: the ids are read (the catch block of
\* getLatestScriptDatabaseIds answers 0 and 0 for a read that failed) and the
\* rows are built.
RecordScriptsToDatabase(c) ==
  /\ dpc[c] = "idle"
  /\ \E count \in 1..MaxDbScripts :
       \E latest \in {GetLatestScriptDatabaseIds(dSheet),
                      [lastBatchNum |-> 0, lastScriptNum |-> 0]} :
         /\ dRows' = [dRows EXCEPT ![c] = NewRows(latest, count)]
         /\ dBatchId' = [dBatchId EXCEPT ![c] = latest.lastBatchNum + 1]
  /\ dpc' = [dpc EXCEPT ![c] = "append"]
  /\ UNCHANGED <<notDatabase, dSheet, dNextRow>>

\* appendDataToTab: column A is read for the next empty row, or the read
\* throws and the call rethrows.
AppendReadRows(c) ==
  /\ dpc[c] = "append"
  /\ \/ /\ dNextRow' = [dNextRow EXCEPT ![c] = Len(dSheet) + 1]
        /\ dpc' = [dpc EXCEPT ![c] = "update"]
     \/ /\ dpc' = [dpc EXCEPT ![c] = "threw"]
        /\ UNCHANGED dNextRow
  /\ UNCHANGED <<notDatabase, dSheet, dRows, dBatchId>>

\* appendDataToTab: the rows are written at the row found, or the write
\* throws; then the call returns its batchId and scriptIds.
AppendUpdate(c) ==
  /\ dpc[c] = "update"
  /\ \/ /\ dSheet' = UpdateRange(dSheet, dNextRow[c], dRows[c])
        /\ dpc' = [dpc EXCEPT ![c] = "returned"]
     \/ /\ dpc' = [dpc EXCEPT ![c] = "threw"]
        /\ UNCHANGED dSheet
  /\ UNCHANGED <<notDatabase, dRows, dBatchId, dNextRow>>

\* ------------------------------------------------------ output file names
notFileNames == <<batchVars, dispatches, videoVars, interactions, metaVars, uploadVars,
                  ledgerVars, subtitleVars, resumableVars, databaseVars>>

\* .substring(0, 50)
maxSlugLength == 50

\* The ids of a request are sequences of characters.  One script id is as
\* long as a slug can be.
LongScriptId == [i \in 1..maxSlugLength |-> "a"]
NameScriptIds == {<<"s", "1">>, <<"s", "2">>, LongScriptId}
NameBaseIds == {<<"b", "1">>, <<"b", "2">>, <<"B", "-", "1">>}
NameModes == {"base-films", "legacy-drive", "legacy-local"}

LowerChar(c) == IF c = "B" THEN "b" ELSE c
ToLowerCase(str) == [i \in 1..Len(str) |-> LowerChar(str[i])]

\* .replace(/[^a-z0-9]+/g, '_'): every run of other characters becomes one _
IsSlugChar(c) == c \in {"a", "b", "s", "1", "2"}
RECURSIVE ReplaceRuns(_)
ReplaceRuns(str) ==
  IF str = <<>> THEN <<>>
  ELSE IF IsSlugChar(Head(str)) THEN <<Head(str)>> \o ReplaceRuns(Tail(str))
  ELSE IF Len(str) > 1 /\ ~IsSlugChar(str[2]) THEN ReplaceRuns(Tail(str))
  ELSE <<"_">> \o ReplaceRuns(Tail(str))

\* .replace(/^_+|_+$/g, '')
RECURSIVE StripUnderscores(_)
StripUnderscores(str) ==
  IF str # <<>> /\ Head(str) = "_" THEN StripUnderscores(Tail(str))
  ELSE IF str # <<>> /\ str[Len(str)] = "_"
       THEN StripUnderscores(SubSeq(str, 1, Len(str) - 1))
  ELSE str

\* generateScriptFileName(index, title): script<index + 1>, followed by _ and
\* the slug of the title when there is one.
GenerateScriptFileName(index, title) ==
  LET baseNumber == <<"script", ToString(index + 1)>>
      stripped == StripUnderscores(ReplaceRuns(ToLowerCase(title)))
      slug == SubSeq(stripped, 1, MinOf(Len(stripped), maxSlugLength))
  IN  IF Trim(title) = <<>> THEN baseNumber
      ELSE IF slug # <<>> THEN baseNumber \o <<"_">> \o slug
      ELSE baseNumber

\* `${scriptId}_${baseId}`
CompositeKey(scriptId, baseId) == scriptId \o <<"_">> \o baseId

\* The entries written to Asset_Database: for each base film, each script.
AssetEntries(scriptIds, baseIds) ==
  [k \in 1..(Len(baseIds) * Len(scriptIds)) |->
     [scriptId |-> scriptIds[((k - 1) % Len(scriptIds)) + 1],
      baseId   |-> baseIds[((k - 1) \div Len(scriptIds)) + 1]]]

\* assetEntriesMap.get(key): the last entry set under the key.
AssetEntriesMapGet(assetEntries, key) ==
  LET hits == {k \in 1..Len(assetEntries) :
                 CompositeKey(assetEntries[k].scriptId, assetEntries[k].baseId) = key}
  IN  IF hits = {} THEN <<>>
      ELSE assetEntries[CHOOSE k \in hits : \A x \in hits : x <= k].fileName

\* The fileName of script idx (from 0) for a base film: the ledger's name for
\* the composite key, or the slug of index and key.
BaseFilmFileName(assetEntries, idx, scriptId, baseId) ==
  LET fromLedger == AssetEntriesMapGet(assetEntries, CompositeKey(scriptId, baseId))
  IN  IF fromLedger # <<>> THEN fromLedger
      ELSE GenerateScriptFileName(idx, CompositeKey(scriptId, baseId))

\* The fileName of script idx (from 0) on the legacy paths, whatever the
\* background video.
LegacyFileName(idx, scriptId) == GenerateScriptFileName(idx, scriptId)

\* The names process-to-videos gives the outputs of one run.  The ledger
\* either gave no entries (no spreadsheet, or writeAssetEntries threw), or its
\* results with every File_Name populated, or its results with none.
AssignFileNames ==
  /\ npc = "idle"
  /\ \E mode \in NameModes,
        scriptIds \in SeqsUpTo(NameScriptIds, MaxNameScripts),
        baseIds \in SeqsUpTo(NameBaseIds, MaxNameBases),
        ledger \in {"none", "names", "fallbacks"} :
       /\ scriptIds # <<>> /\ baseIds # <<>>
       /\ mode # "base-films" => ledger = "none"
       /\ LET entries == AssetEntries(scriptIds, baseIds)
              assetEntries ==
                CASE ledger = "none" -> <<>>
                  [] ledger = "names" ->
                       BuildResults([k \in 1..Len(entries) |-> LedgerFileName(k)], entries)
                  [] OTHER -> BuildResults(<<>>, entries)
          IN  nNames' = [s \in 1..Len(scriptIds) |-> [b \in 1..Len(baseIds) |->
                           IF mode = "base-films"
                           THEN BaseFilmFileName(assetEntries, s - 1, scriptIds[s], baseIds[b])
                           ELSE LegacyFileName(s - 1, scriptIds[s])]]
       /\ nMode' = mode
       /\ nScriptIds' = scriptIds
       /\ nBaseIds' = baseIds
       /\ nLedger' = ledger
  /\ npc' = "done"
  /\ UNCHANGED notFileNames

\* ------------------------------------------------------------ specification
Init ==
  /\ batch = NoBatch
  /\ rows = <<>>
  /\ dispatches = {}
  /\ gpc = "idle"
  /\ gSugg = <<>>
  /\ gVideos = <<>>
  /\ gI = 0
  /\ gResp = "none"
  /\ gFail = "none"
  /\ gTimer = "none"
  /\ spc = "idle"
  /\ sScripts = <<>>
  /\ sVerified = {}
  /\ sLogged = FALSE
  /\ sResp = "none"
  /\ createdContent = <<>>
  /\ vpc = "idle"
  /\ vMode = "none"
  /\ vN = 0
  /\ vM = 0
  /\ vSlack = "off"
  /\ vIdx = 0
  /\ vResp = "none"
  /\ vFail = "none"
  /\ vTimer = "none"
  /\ baseFilmErrors = <<>>
  /\ successfulBases = 0
  /\ vResults = {}
  /\ vDownloads = {}
  /\ synthCalls = 0
  /\ compositeCalls = 0
  /\ vRendered = 0
  /\ vFolders = 0
  /\ vUploadFolders = {}
  /\ vNotice = FALSE
  /\ unhandled = FALSE
  /\ interactions = [r \in 1..MaxInteractions |-> NoInteraction]
  /\ mpc = "idle"
  /\ mKind = "none"
  /\ mAssets = <<>>
  /\ mMarket = "none"
  /\ mNow = 0
  /\ mIdx = 0
  /\ mResults = <<>>
  /\ mResp = NoResponse
  /\ mCampaigns = 0
  /\ mCreated = {}
  /\ upc = "idle"
  /\ uSize = 0
  /\ uTimeout = 0
  /\ uAttempt = 0
  /\ uErrors = <<>>
  /\ uSingle = 0
  /\ uResumable = 0
  /\ uResult = "none"
  /\ lpc = "idle"
  /\ lEntries = <<>>
  /\ lAttempts = 0
  /\ lReads = 0
  /\ lWaits = 0
  /\ lFileNames = <<>>
  /\ lResults = <<>>
  /\ lThrew = FALSE
  /\ lSheet = <<>>
  /\ lWritten = {}
  /\ tpc = "idle"
  /\ tText = <<>>
  /\ tDuration = 0
  /\ tChunks = <<>>
  /\ tSegments = <<>>
  /\ rpc = "idle"
  /\ rSize = 0
  /\ rStartOffset = 0
  /\ rEndOffset = 0
  /\ rVideoId = FALSE
  /\ rCovered = {}
  /\ rLog = <<>>
  /\ rResult = "none"
  /\ dSheet = <<>>
  /\ dpc = [c \in DbCalls |-> "idle"]
  /\ dRows = [c \in DbCalls |-> <<>>]
  /\ dBatchId = [c \in DbCalls |-> 0]
  /\ dNextRow = [c \in DbCalls |-> 0]
  /\ npc = "idle"
  /\ nMode = "none"
  /\ nScriptIds = <<>>
  /\ nBaseIds = <<>>
  /\ nLedger = "none"
  /\ nNames = <<>>

\* The batch store with the generation handlers, send-batch and the
\* out-of-band change of a stored content.
Next ==
  \/ GenerateScripts
  \/ GenerateIterations
  \/ GenCreateBatchScripts
  \/ GenCreateVideos
  \/ GenUpdateBatchScript
  \/ GenUpdateStatus
  \/ GenUpdateFolderLink
  \/ GenSaveAndNotify
  \/ GenTimerFire
  \/ SBReadBatch
  \/ SBReadScripts
  \/ SBFailsafes
  \/ SBLogViolation
  \/ SBSend
  \/ SBUpdateStatus
  \/ TamperContent

Spec == Init /\ [][Next]_vars

\* One process-to-videos request and its timer.
NextVideos ==
  \/ VStart
  \/ VSynth
  \/ VBaseFilm
  \/ VLegacyVideo
  \/ VNoScriptFolder
  \/ VNoScriptBaseFilm
  \/ VFinish
  \/ VTimerFire

SpecVideos == Init /\ [][NextVideos]_vars

\* The requests to the Slack interactions webhook and their background work.
NextInteractions ==
  \E r \in 1..MaxInteractions :
    \/ SlackInteraction(r)
    \/ InteractionUpdateMessage(r)
    \/ InteractionRecordDecision(r)
    \/ InteractionUpdateSheet(r)

SpecInteractions == Init /\ [][NextInteractions]_vars

\* One request to upload-batch or to create-campaign.
NextMeta ==
  \/ UploadBatchStart
  \/ UploadBatchAsset
  \/ CreateCampaignStart
  \/ CreateCampaign
  \/ CreateCampaignAsset

SpecMeta == Init /\ [][NextMeta]_vars

\* One call of uploadFileToMeta.
NextUpload ==
  \/ UploadFileToMeta
  \/ UploadAttempt
  \/ UploadResumable

SpecUpload == Init /\ [][NextUpload]_vars

\* One call of writeAssetEntries.  The awaited Sheets calls and timers
\* complete, so the call takes its next step.
NextLedger ==
  \/ WriteAssetEntries
  \/ PollFileNames

SpecLedger == Init /\ [][NextLedger]_vars /\ WF_vars(NextLedger)

\* One call of generateSegments.
NextSubtitles ==
  \/ GenerateSegments

SpecSubtitles == Init /\ [][NextSubtitles]_vars

\* One call of uploadFileToMetaResumable.
NextResumable ==
  \/ ResumableStart
  \/ ResumableTransfer
  \/ ResumableFinish

SpecResumable == Init /\ [][NextResumable]_vars

\* Calls of recordScriptsToDatabase on one spreadsheet, their awaits interleaved.
NextDatabase ==
  \/ \E c \in DbCalls : RecordScriptsToDatabase(c)
  \/ \E c \in DbCalls : AppendReadRows(c)
  \/ \E c \in DbCalls : AppendUpdate(c)

SpecDatabase == Init /\ [][NextDatabase]_vars

\* The file names of one process-to-videos run.
NextFileNames ==
  \/ AssignFileNames

SpecFileNames == Init /\ [][NextFileNames]_vars

\* ------------------------------------------------------------------ claims
\* C1: every call of sendVideoBatchForApproval is preceded, in its flow, by a
\* re-verification of the content fingerprint of every item of the batch.
C1_EveryDispatchVerified ==
  \A d \in dispatches : d.verified = 1..Len(d.contents)

\* The scripts read by send-batch hold a content that is not the one their
\* contentHash was computed from at creation.
Mutated(scripts) ==
  \E i \in 1..Len(scripts) : scripts[i].content # createdContent[i]

\* C2 as stated: a send-batch request that read a mutated item and was
\* answered by the handler's own checks is answered 403.
C2_MutatedAnswered403 ==
  (spc = "done" /\ Mutated(sScripts) /\ sResp # "500") => sResp = "403"

\* C2 as amended: the fingerprint check fails only on a mutated item; a request
\* that read a mutated item never reaches the Slack send or the status
\* update, and is answered 403, or 400 when validateBatchIntegrity rejects the
\* batch first, or 500 when a call of the handler throws; what send-batch
\* dispatches is the content the hashes were computed from.
C2_FingerprintCheck ==
  /\ (spc = "log" \/ sResp = "403") => Mutated(sScripts)
  /\ Mutated(sScripts) => spc \notin {"send", "update"}
  /\ (spc = "done" /\ Mutated(sScripts)) => sResp \in {"403", "400-invalid", "500"}
  /\ \A d \in dispatches : d.path = "send-batch" => d.contents = createdContent

C2_Witness ==
  /\ spc = "done"
  /\ sResp = "403"
  /\ Mutated(sScripts)
  /\ Len(sScripts) = 2
  /\ batch.status = "videos_generated"

\* The pre-dispatch conditions of C3, on the scripts a request read.
AllChecksHold(scripts) ==
  /\ Cardinality({scripts[i].title : i \in 1..Len(scripts)}) = Len(scripts)
  /\ \A i \in 1..Len(scripts) : scripts[i].videoUrl \/ scripts[i].videoFile
  /\ batch.scriptCount = Len(scripts)
  /\ \A i \in 1..Len(scripts) : scripts[i].scriptIndex = i - 1

\* C3: send-batch sends to Slack and sets slack_sent only if the scripts it
\* read have pairwise distinct titles, all have a video, are as many as the
\* batch's scriptCount and carry their position as scriptIndex; a request whose
\* scripts fail one of these is rejected before the send.
C3_SendOnlyIfChecksHold ==
  /\ (spc \in {"send", "update"} \/ sResp = "200") => AllChecksHold(sScripts)
  /\ (spc = "done" /\ sScripts # <<>> /\ ~AllChecksHold(sScripts)) =>
        sResp \in {"400-invalid", "400-duplicate", "400-novideo", "403", "500"}
  /\ batch.status = "slack_sent" => \E d \in dispatches : d.path = "send-batch"

C3_Witness ==
  /\ sResp = "200"
  /\ batch.status = "slack_sent"
  /\ Len(sScripts) = 2
  /\ AllChecksHold(sScripts)

\* C4: the stored batch status never moves backward in the order
\* generating < videos_generated < slack_sent.
C4_StatusNeverRegresses ==
  [][StatusRank(batch'.status) >= StatusRank(batch.status)]_vars

\* C5: a batch whose status has left generating has a scriptCount equal to
\* the number of its stored rows.
C5_ScriptCountMatchesRows ==
  (batch.exists /\ batch.status # "generating") => batch.scriptCount = Len(rows)

\* C6: when generation or the persistence of the rows failed, the finished
\* request does not leave the batch in generating without its rows.
C6_NoPartialGeneratingBatch ==
  (gpc = "done" /\ gFail \in {"generate", "persist"}) =>
    ~(batch.status = "generating" /\ Len(rows) # batch.scriptCount)

\* C7: a send-batch rejection for an integrity violation (fingerprint
\* mismatch, duplicate titles, missing video) has written its entry to the
\* activity log.
C7_IntegrityRejectionsLogged ==
  sResp \in {"403", "400-duplicate", "400-novideo"} => sLogged

C9_AllFailedIsFailure ==
  (/\ vpc = "done"
   /\ vMode \in {"bases", "noscript", "drive"}
   /\ vM > 0
   /\ vIdx > vM
   /\ vResults = {}) => vResp # "200"

\* The number of baseFilmErrors entries of a base film.
ErrorEntries(b) ==
  Cardinality({i \in 1..Len(baseFilmErrors) : baseFilmErrors[i] = b})

\* C10: in a normal-mode run that reached the base film loop, every base film
\* ends either counted as successful or with exactly one baseFilmErrors entry.
C10_EveryBaseFilmAccounted ==
  (vpc = "done" /\ vMode = "bases" /\ vFail # "synth" /\ vResp # "400-scripts") =>
    \A b \in 1..vM :
      \/ b \in vResults /\ ErrorEntries(b) = 0
      \/ b \notin vResults /\ ErrorEntries(b) = 1

\* C11: a process-to-videos run creates one Drive folder at most, and every
\* video the run uploads goes to that first and only folder.
C11_OneFolderPerRun ==
  /\ vFolders <= 1
  /\ vUploadFolders \subseteq {1}

\* C12: a run on scripts that all carry a finished video reference already
\* synthesises nothing, composites nothing and uploads nothing.
C12_NoReRender ==
  (vN > 0 /\ vRendered = vN) =>
    /\ synthCalls = 0
    /\ compositeCalls = 0
    /\ vUploadFolders = {}

\* C13: with sendToSlack, in every mode: with delay 0 the approval has been
\* dispatched when the response is sent and no timer is used; with a delay the
\* batch-created notice has been sent when the response is sent and the
\* approval comes from the timer only.
C13_SlackTiming ==
  (/\ vpc = "done"
   /\ vResp = "200"
   /\ vSlack # "off"
   /\ (vMode = "noscript" => vResults # {})) =>
     IF vSlack = "now"
     THEN vTimer = "none" /\ ApprovalDispatch \in dispatches
     ELSE /\ vNotice
          /\ vTimer # "none"
          /\ vTimer = "pending" => dispatches = {}

\* C15: a failed send inside a timer callback is caught there; no rejection
\* is left unhandled.
C15_TimerFailuresCaught ==
  ~unhandled

\* C14: every request to the interactions webhook is answered exactly once;
\* a block_actions request is acknowledged before any of its mutations
\* starts, and neither the later work nor its failure changes or repeats the
\* response.
C14_AckBeforeMutation ==
  /\ [](\A r \in 1..MaxInteractions :
         /\ Len(interactions[r].responses) = (IF interactions[r].pc = "idle" THEN 0 ELSE 1)
         /\ interactions[r].mutations # <<>> => interactions[r].responses = <<"200-ack">>
         /\ interactions[r].pc \in {"message", "record", "sheet"} =>
              interactions[r].responses = <<"200-ack">>)
  /\ [][\A r \in 1..MaxInteractions :
          /\ interactions[r].responses # <<>> =>
               interactions'[r].responses = interactions[r].responses
          /\ interactions[r].mutations = <<>> /\ interactions'[r].mutations # <<>> =>
               interactions[r].responses = <<"200-ack">>]_vars

C14_Witness ==
  /\ interactions[1].pc = "done"
  /\ interactions[1].responses = <<"200-ack">>
  /\ interactions[1].mutations = <<"message", "decision", "sheet">>
  /\ interactions[2].pc = "done"
  /\ interactions[2].responses = <<"200-ack">>
  /\ interactions[2].failed
  /\ interactions[3].responses = <<"500">>

\* C16: in upload-batch and create-campaign the result list has one entry
\* per input asset, in input order, whatever failed on the way; an asset
\* without its id is never a success in create-campaign; and successCount is
\* the number of entries marked successful.
C16_OneResultPerAsset ==
  /\ mpc = "loop" =>
       /\ Len(mResults) = mIdx - 1
       /\ mIdx <= Len(mAssets)
  /\ \A i \in 1..Len(mResults) : mResults[i].asset = i
  /\ (mpc = "done" /\ mResp.status = "200") =>
       /\ Len(mResults) = Len(mAssets)
       /\ mResp.successCount =
            Cardinality({i \in 1..Len(mResults) : mResults[i].success = "true"})
       /\ mKind = "create-campaign" =>
            \A i \in 1..Len(mAssets) : ~mAssets[i] => mResults[i].success # "true"

C16_Witness ==
  /\ mpc = "done"
  /\ mKind = "create-campaign"
  /\ mAssets = <<TRUE, TRUE, FALSE, TRUE, TRUE>>
  /\ Len(mResults) = 5
  /\ mResults[3].success = "undefined"
  /\ \A i \in {1, 2, 4, 5} : mResults[i].success = "true"
  /\ mResp = [status |-> "200", successCount |-> 4]

\* C17: an invocation of create-campaign creates one campaign at most, only
\* for a non-empty asset list and a market that has its three template ids
\* (UK is the only one); campaign, ad sets and ads are asked for with status
\* PAUSED, campaign and ad sets with startTime = now and endTime = now + 7 days.
C17_OnePausedCampaign ==
  /\ mCampaigns <= 1
  /\ (mCampaigns = 1 \/ (mpc \in {"campaign", "loop"} /\ mKind = "create-campaign")) =>
       /\ mAssets # <<>>
       /\ mMarket = <<"U", "K">>
  /\ mCreated # {} => mCampaigns = 1
  /\ \A c \in mCreated :
       /\ c.kind \in {"campaign", "adset", "ad"} => c.status = "PAUSED"
       /\ c.status # "ACTIVE"
       /\ c.kind \in {"campaign", "adset"} =>
            c.startTime = mNow /\ c.endTime = mNow + 604800000

C17_Witness ==
  /\ mpc = "done"
  /\ mKind = "create-campaign"
  /\ mResp.status = "200"
  /\ mCampaigns = 1
  /\ mNow = 1
  /\ \E c \in mCreated : c.kind = "campaign" /\ c.endTime = 604800001
  /\ \E c \in mCreated : c.kind = "adset"
  /\ \E c \in mCreated : c.kind = "ad"

\* C18: every timeout of the single-request upload (the client-side
\* ECONNABORTED as well as the platform's code 390 / subcode 1363030) is
\* escalated to the resumable upload.
C18_TimeoutsEscalated ==
  (/\ upc = "done"
   /\ uErrors # <<>>
   /\ uErrors[Len(uErrors)] \in {"ECONNABORTED", "meta-390-1363030"}) =>
     uResumable = 1

\* C19: a call of uploadFileToMeta issues the single-request upload once at
\* most; the only further attempt is the resumable path after the transient
\* timeout.
C19_NoTransportRetry ==
  /\ uSingle <= 1
  /\ (uSingle = 1 /\ uResumable > 0) => uErrors = <<"meta-390-1363030">>

\* C20 as stated: a call of writeAssetEntries that has ended has returned one
\* result per entry.
C20_AlwaysReturnsResults ==
  lpc = "done" => Len(lResults) = Len(lEntries)

\* C20 as amended: the File_Name cells are read 3 times at most and at most
\* 3 timers are awaited; the call ends; when it ends it has either rethrown
\* the error of a Sheets call or returned one result per entry, in the order
\* of the entries, each with the cell read last for its row or, when that is
\* empty or missing, the fallback asset_<scriptId>_<baseId>.
C20_BoundedPoll ==
  /\ [](/\ lReads <= 3
        /\ lWaits <= 3
        /\ lpc = "done" =>
             \/ lThrew /\ lResults = <<>>
             \/ /\ ~lThrew
                /\ Len(lResults) = Len(lEntries)
                /\ \A i \in 1..Len(lEntries) :
                     /\ lResults[i].scriptId = lEntries[i].scriptId
                     /\ lResults[i].baseId = lEntries[i].baseId
                     /\ lResults[i].fileName \in
                          {<<"f", ToString(i)>>, <<" ">>,
                           <<"asset", lEntries[i].scriptId, lEntries[i].baseId>>}
                     /\ (i <= Len(lFileNames) /\ lFileNames[i] # <<>>) =>
                          lResults[i].fileName = lFileNames[i]
                     /\ (i > Len(lFileNames) \/ lFileNames[i] = <<>>) =>
                          lResults[i].fileName =
                            <<"asset", lEntries[i].scriptId, lEntries[i].baseId>>)
  /\ <>(lpc = "done")

C20_Witness ==
  /\ lpc = "done"
  /\ ~lThrew
  /\ lReads = 3
  /\ Len(lEntries) = 2
  /\ lResults[1].fileName = <<"f", "1">>
  /\ lResults[2].fileName = <<"asset", lEntries[2].scriptId, lEntries[2].baseId>>

\* C21: every segment generateSegments returns lasts at least 800 ms, unless
\* it is the only segment and the whole duration is under 800 ms.
C21_MinimumSegmentDuration ==
  tpc = "done" =>
    \A k \in 1..Len(tSegments) :
      \/ tSegments[k].end - tSegments[k].start >= 800
      \/ (Len(tSegments) = 1 /\ tDuration < 8000)

\* C22: for a non-negative duration every segment starts no later than it
\* ends, and no earlier than the segment before it ends.
C22_MonotoneTimestamps ==
  tpc = "done" =>
    \A k \in 1..Len(tSegments) :
      /\ tSegments[k].start <= tSegments[k].end
      /\ k > 1 => tSegments[k].start >= tSegments[k - 1].end

\* Several segments, the later ones clipped at a duration too short for them.
C22_Witness ==
  /\ tpc = "done"
  /\ Len(tSegments) = 3
  /\ tDuration = 10000
  /\ tSegments[2].end = 1000
  /\ tSegments[3].start = 1000

RECURSIVE Flatten(_)
Flatten(seqs) == IF seqs = <<>> THEN <<>> ELSE Head(seqs) \o Flatten(Tail(seqs))

\* C24: the texts of the segments, joined in order with a space, are the words
\* of the input text in their order, none dropped, repeated or moved.
C24_WordsPreserved ==
  tpc = "done" =>
    Flatten([k \in 1..Len(tSegments) |-> tSegments[k].text])
      = SelectSeq(tText, LAMBDA t : t \in WordTokens)

\* A text with whitespace to drop and words for three segments.
C24_Witness ==
  /\ tpc = "done"
  /\ Len(tSegments) = 3
  /\ Len(tText) = 12
  /\ \E i \in 1..Len(tText) : tText[i] = " "

\* C25: no chunk has more than 6 words, every chunk but the last has at least
\* 5, and a chunk has 6 only when its sixth word ends with punctuation.
C25_ChunkSizes ==
  tpc = "done" =>
    \A k \in 1..Len(tChunks) :
      /\ Len(tChunks[k]) <= 6
      /\ k < Len(tChunks) => Len(tChunks[k]) >= 5
      /\ Len(tChunks[k]) = 6 => tChunks[k][6] = "b,"

\* A chunk of 6 words followed by another chunk.
C25_Witness ==
  /\ tpc = "done"
  /\ Len(tChunks) >= 2
  /\ Len(tChunks[1]) = 6

\* C26: once the generation request that created a batch has completed and
\* its delayed approval is no longer pending, the batch has left status
\* generating.
C26_CompletedBatchLeftGenerating ==
  (gpc = "done" /\ gTimer # "pending" /\ batch.exists) => batch.status # "generating"

\* C27: a call that returns a video id issued its requests in the order
\* start, transfers, finish, and its transfer requests sent every byte of the
\* file.
C27_SuccessAfterFullTransfer ==
  (rpc = "done" /\ rResult = "id") =>
    /\ rLog[1] = "start"
    /\ rLog[Len(rLog)] = "finish"
    /\ \A i \in 2..(Len(rLog) - 1) : rLog[i] = "transfer"
    /\ rCovered = 0..(rSize - 1)

\* C28: no two recorded scripts carry the same script_id, and no two calls
\* that returned were given the same script_batch_id.
C28_UniqueIds ==
  /\ \A i, j \in 1..Len(dSheet) : dSheet[i].script = dSheet[j].script => i = j
  /\ \A c, d \in DbCalls :
       (dpc[c] = "returned" /\ dpc[d] = "returned" /\ dBatchId[c] = dBatchId[d]) => c = d

\* C29: every row writeAssetEntries writes had columns E, H and L all empty
\* (after trimming) in the sheet as the call read it.
C29_WritesOnlyEmptyRows ==
  \A r \in lWritten :
    (r - 1 <= Len(lSheet)) =>
      /\ Trim(lSheet[r - 1].e) = <<>>
      /\ Trim(lSheet[r - 1].h) = <<>>
      /\ Trim(lSheet[r - 1].l) = <<>>

\* C30: in a run whose scripts have pairwise distinct ids and whose base
\* films have pairwise distinct ids, distinct (script, base film)
\* combinations get distinct output file names.
C30_DistinctFileNames ==
  (/\ npc = "done"
   /\ \A s, t \in 1..Len(nScriptIds) : nScriptIds[s] = nScriptIds[t] => s = t
   /\ \A b, c \in 1..Len(nBaseIds) : nBaseIds[b] = nBaseIds[c] => b = c) =>
    \A s, t \in 1..Len(nScriptIds) : \A b, c \in 1..Len(nBaseIds) :
      nNames[s][b] = nNames[t][c] => (s = t /\ b = c)

====
